---- MODULE Spec2Model ----
(***************************************************************************)
(* Model of the project-initialisation scripts: scripts/full_init_project  *)
(* (class ProjectInitializer) and scripts/quick_init_project.              *)
(*                                                                         *)
(* Text is a sequence of one-character strings, so that str.lower,         *)
(* str.strip and str.replace are computed character by character.          *)
(* Every external command is a step whose return code is chosen by the     *)
(* environment; every operator answer is chosen from Answers.              *)
(***************************************************************************)
EXTENDS Integers, Sequences, FiniteSets, TLC

VARIABLES
    variant,        \* "full": scripts/full_init_project, "quick": scripts/quick_init_project
    entry,          \* the function called: "run" (run or main) or "setup_remote_and_push"
    pc,             \* position in the script
    status,         \* "running", "done", "exit0", "exit1", "raised"
    nonEmpty,       \* the project directory holds a non-hidden entry
    gitDir,         \* <project>/.git exists
    gitInitialized, \* git_initialized of ProjectInitializer.run
    language,       \* language argument of ProjectInitializer.run
    origin,         \* URL of the remote named origin, or Absent
    templates,      \* template name -> text of the template file, or Absent
    files,          \* destination -> text written in the project, or Absent
    hookExec,       \* .git/hooks/pre-commit has mode 0o755
    cmds,           \* external commands invoked so far, with their return codes
    prompts,        \* input() prompts issued so far, with the operator's answers
    sleeps,         \* time.sleep durations so far
    attempt,        \* loop variable of the push retry loop
    msgs,           \* reports printed so far
    call,           \* arguments and read content of the last copy_template call
    ops,            \* mkdir, copy_template, write_text and chmod calls so far, in order
    listing,        \* names of the entries of the project directory
    disk,           \* templates directory path -> its files, or Absent when it does not exist
    templates_dir,  \* self.templates_dir of a constructed ProjectInitializer
    hookRan,        \* git has run .git/hooks/pre-commit for a commit of this run
    options,        \* the setup options the operator gave the TUI
    checks,         \* what check_prerequisites of the TUI found
    pair            \* inputs and observations of the two remote publishers run side by side

vars == <<variant, entry, pc, status, nonEmpty, gitDir, gitInitialized, language, origin,
          templates, files, hookExec, cmds, prompts, sleeps, attempt, msgs, call,
          ops, listing, disk, templates_dir, hookRan, options, checks, pair>>

\* The state no step of run or main changes.
ctx == <<listing, disk, templates_dir, options, checks, pair>>

\* ------------------------------------------------------------------ bounds
\* Longest URL the operator types, in characters.
MaxUrlLen == 2
\* Longest template text of the substitution specification, in pieces.
MaxPieces == 3
\* Most entries of a replacement map.
MaxVars == 2

\* -------------------------------------------------------------------- text
\* A file or remote that does not exist; no text equals it.
Absent == <<"Absent">>

\* str.lower, on the characters the answers are made of.
LowerChar(c) == IF c = "Y" THEN "y" ELSE IF c = "N" THEN "n" ELSE c

\* A lower that leaves the capitals as they are.
Lower_identity(s) == s

Lower(s) == [i \in DOMAIN s |-> LowerChar(s[i])]

IsSpace(c) == c = " "

RECURSIVE LStrip(_)
LStrip(s) == IF s # <<>> /\ IsSpace(Head(s)) THEN LStrip(Tail(s)) ELSE s

RECURSIVE RStrip(_)
RStrip(s) ==
    IF s # <<>> /\ IsSpace(s[Len(s)]) THEN RStrip(SubSeq(s, 1, Len(s) - 1)) ELSE s

\* The input taken as typed.
Strip_omitted(s) == s

\* str.strip
Strip(s) == RStrip(LStrip(s))

StartsWith(s, p) == Len(p) <= Len(s) /\ SubSeq(s, 1, Len(p)) = p

\* `p in s` for strings
Contains(s, p) == \E i \in 0..(Len(s) - Len(p)) : SubSeq(s, i + 1, i + Len(p)) = p

\* str.replace(old, new, 1): only the first occurrence is replaced.
RECURSIVE ReplaceFirst(_, _, _)
ReplaceFirst(s, old, new) ==
    IF Len(s) < Len(old) THEN s
    ELSE IF StartsWith(s, old) THEN new \o SubSeq(s, Len(old) + 1, Len(s))
    ELSE <<Head(s)>> \o ReplaceFirst(Tail(s), old, new)

\* str.replace(old, new) for a non-empty old: the occurrences are found from the
\* left and do not overlap; the text put in is not scanned again.
RECURSIVE Replace(_, _, _)
Replace(s, old, new) ==
    IF Len(s) < Len(old) THEN s
    ELSE IF StartsWith(s, old)
         THEN new \o Replace(SubSeq(s, Len(old) + 1, Len(s)), old, new)
         ELSE <<Head(s)>> \o Replace(Tail(s), old, new)

\* f"{{{key}}}"
Placeholder(key) == <<"{">> \o key \o <<"}">>

PROJECT_NAME == <<"P", "R", "O", "J", "E", "C", "T", "_", "N", "A", "M", "E">>

\* self.project_path.name
ProjectPathName == <<"a", "p", "p">>

\* The answers the operator gives to a yes/no prompt.
Answers ==
    { <<>>, <<"y">>, <<"Y">>, <<"n">>, <<"N">>, <<"y", "e", "s">>, <<" ", "y">>,
      <<"y", " ">> }

RECURSIVE SeqsUpTo(_, _)
SeqsUpTo(S, n) ==
    IF n = 0 THEN { <<>> }
    ELSE LET shorter == SeqsUpTo(S, n - 1)
         IN  shorter \cup { <<c>> \o s : c \in S, s \in { t \in shorter : Len(t) = n - 1 } }

\* What the operator types at the URL prompt.
Urls == SeqsUpTo({" ", "u"}, MaxUrlLen)

\* ---------------------------------------------------------------- commands
GitInit == "git init"
GitBranch == "git branch -M main"
GitAdd == "git add ."
GitCommit == "git commit --no-verify -m"
GitConfigName == "git config user.name"
GitConfigEmail == "git config user.email"
GitRemoteGetUrl == "git remote get-url origin"
GitRemoteAdd == "git remote add origin"
GitPush == "git push -u origin main"
WhichCoderabbit == "which coderabbit"

Ran(cmd, rc) == [cmd |-> cmd, rc |-> rc]

\* An input() call: the prompt and the text the operator typed.
Asked(prompt, answer) == [prompt |-> prompt, answer |-> answer]

\* run_command that never raises.
run_command_unchecked(rc, check) == "returned"

\* run that exits on every failure, whatever check is.
run_always_checked(rc, check) == IF rc # 0 THEN "exit1" ELSE "returned"

\* ProjectInitializer.run_command: with check, a non-zero return code is printed
\* and raised as CalledProcessError; otherwise the result is returned.
run_command(rc, check) == IF check /\ rc # 0 THEN "CalledProcessError" ELSE "returned"

\* run that never exits.
run_never_exits(rc, check) == "returned"

\* run that exits on a failure when check is false.
run_checks_inverted(rc, check) == IF ~check /\ rc # 0 THEN "exit1" ELSE "returned"

\* quick_init_project.run: with check, a non-zero return code is printed and the
\* process exits with status 1; otherwise the result is returned.
run(rc, check) == IF check /\ rc # 0 THEN "exit1" ELSE "returned"

\* Return codes the environment can give a command.
ReturnCodes == {0, 1}

\* The schedule with two delays exchanged.
retry_delays_swapped == <<2, 8, 4, 16>>

\* One attempt more than the schedule allows.
quick_max_retries_extra == 4 + 1

max_retries == 4
retry_delays == <<2, 4, 8, 16>>
quick_max_retries == 4
\* A schedule that waits 4 seconds twice.
quick_retry_delays_flat == <<2, 4, 4, 16>>

quick_retry_delays == <<2, 4, 8, 16>>

\* --------------------------------------------------------------- templates
\* Values of the language argument.
Languages == {"python", "generic", "go"}

\* f"gitignore.{language}"
GitignoreTemplate(lang) ==
    CASE lang = "python" -> "gitignore.python"
      [] lang = "generic" -> "gitignore.generic"
      [] lang = "go" -> "gitignore.go"

\* The files a templates directory may hold; it holds no gitignore.go.
TemplateNames ==
    { "gitignore.python", "gitignore.generic", "gitattributes", "coderabbit.yaml",
      "pre-commit", "README.md" }

\* replace_vars=None, and a map given as a sequence of <<key, value>> pairs.
None == [given |-> FALSE, items |-> <<>>]

Map(items) == [given |-> TRUE, items |-> items]

Destinations ==
    { ".gitignore", ".gitattributes", ".coderabbit.yaml", ".git/hooks/pre-commit",
      "README.md" }

\* The for loop of copy_template over replace_vars.items(), in the map's order.
RECURSIVE Substitute(_, _)
Substitute(content, items) ==
    IF items = <<>> THEN content
    ELSE Substitute(Replace(content, Placeholder(Head(items)[1]), Head(items)[2]),
                    Tail(items))

\* The text copied without its substitutions.
Rendered_unsubstituted(content, replace_vars) == content

\* A map defaulted to the project name when none is given.
Rendered_defaulted(content, replace_vars) ==
    IF ~replace_vars.given \/ replace_vars.items = <<>>
    THEN Substitute(content, << <<PROJECT_NAME, ProjectPathName>> >>)
    ELSE Substitute(content, replace_vars.items)

\* `if replace_vars:` is false for None and for the empty map.
Rendered(content, replace_vars) ==
    IF ~replace_vars.given \/ replace_vars.items = <<>> THEN content
    ELSE Substitute(content, replace_vars.items)

TemplateExists(name) == name \in DOMAIN templates /\ templates[name] # Absent

\* The files after copy_template(template_name, destination, replace_vars).
copy_template(template_name, destination, replace_vars) ==
    IF ~TemplateExists(template_name) THEN files
    ELSE [files EXCEPT ![destination] = Rendered(templates[template_name], replace_vars)]

\* What copy_template prints.
copy_template_msg(template_name) ==
    IF ~TemplateExists(template_name) THEN "Template not found" ELSE "Created"

\* The record of a copy_template call.
Called(template_name, destination, replace_vars) ==
    [name |-> template_name, dest |-> destination, vars |-> replace_vars,
     content |-> IF TemplateExists(template_name) THEN templates[template_name]
                 ELSE Absent]

\* A call of Path.mkdir, copy_template, Path.write_text or Path.chmod, with the
\* mode given to chmod (0 for the other calls).
Op(op, arg) == [op |-> op, arg |-> arg, mode |-> 0]

Chmod(path, mode) == [op |-> "chmod", arg |-> path, mode |-> mode]

\* --------------------------------------------------------- remote publisher
\* The comparison made with 'n' instead of 'y'.
Yes_no == <<"n">>

Yes == <<"y">>

\* The comparison inverted.
Confirmed_inverted(answer) == Lower(answer) # Yes

\* input(...).lower() followed by the comparison with 'y'.
Confirmed(answer) == Lower(answer) = Yes

\* Where setup_remote_and_push returns to: the line after its call in run or main,
\* or the caller of the function itself.
Returned == IF entry = "run" THEN "complete" ELSE "returned"

\* A query that reports no remote whatever is configured.
get_url_returncode_missing(remote) == 0 + 1

\* `git remote get-url origin`: return code 0 when origin is configured.
get_url_returncode(remote) == IF remote # Absent THEN 0 ELSE 1

\* ProjectInitializer.setup_remote_and_push up to the retry loop. The query of the
\* remote is outside any try block; the registration is inside one.
Full_setup_remote_and_push ==
    /\ variant = "full" /\ status = "running" /\ pc = "pub"
    /\ \E answer \in Answers, url \in Urls, rcAdd \in ReturnCodes :
         LET rc == get_url_returncode(origin)
             queried == Append(cmds, Ran(GitRemoteGetUrl, rc))
             remote_url == Strip(url)
         IN  IF run_command(rc, FALSE) = "CalledProcessError"
             THEN /\ cmds' = queried
                  /\ msgs' = Append(msgs, "Command failed")
                  /\ status' = "raised"
                  /\ pc' = "aborted"
                  /\ UNCHANGED <<prompts, origin>>
             ELSE IF rc = 0
             THEN /\ prompts' = Append(prompts, Asked("Push to this remote? (y/n)", answer))
                  /\ cmds' = queried
                  /\ IF ~Confirmed(answer)
                     THEN /\ msgs' = Append(msgs, "Skipping push to remote.")
                          /\ pc' = Returned
                     ELSE /\ msgs' = msgs
                          /\ pc' = "push"
                  /\ UNCHANGED <<origin, status>>
             ELSE IF ~Confirmed(answer)
             THEN /\ prompts' = Append(prompts, Asked("Add a remote repository? (y/n)", answer))
                  /\ cmds' = queried
                  /\ msgs' = Append(msgs, "Skipping remote setup.")
                  /\ pc' = Returned
                  /\ UNCHANGED <<origin, status>>
             ELSE IF remote_url = <<>>
             THEN /\ prompts' = prompts \o <<Asked("Add a remote repository? (y/n)", answer),
                                             Asked("Enter remote repository URL", url)>>
                  /\ cmds' = queried
                  /\ msgs' = Append(msgs, "No URL provided, skipping remote setup.")
                  /\ pc' = Returned
                  /\ UNCHANGED <<origin, status>>
             ELSE /\ prompts' = prompts \o <<Asked("Add a remote repository? (y/n)", answer),
                                             Asked("Enter remote repository URL", url)>>
                  /\ cmds' = Append(queried, Ran(GitRemoteAdd, rcAdd))
                  /\ IF run_command(rcAdd, TRUE) = "CalledProcessError"
                     THEN /\ origin' = origin
                          /\ msgs' = msgs \o <<"Command failed", "Failed to add remote">>
                          /\ pc' = Returned
                     ELSE /\ origin' = IF rcAdd = 0 THEN remote_url ELSE origin
                          /\ msgs' = Append(msgs, "Remote added successfully")
                          /\ pc' = "push"
                  /\ UNCHANGED status
    /\ attempt' = 0
    /\ UNCHANGED <<ctx, hookRan, ops, variant, entry, nonEmpty, gitDir, gitInitialized, language,
                   templates, files, hookExec, sleeps, call>>

\* One iteration of the retry loop of ProjectInitializer.setup_remote_and_push.
Full_push_attempt ==
    /\ variant = "full" /\ status = "running" /\ pc = "push"
    /\ attempt < max_retries
    /\ \E rc \in ReturnCodes :
         /\ cmds' = Append(cmds, Ran(GitPush, rc))
         /\ IF run_command(rc, TRUE) = "returned"
            THEN /\ msgs' = Append(msgs, "Successfully pushed to remote!")
                 /\ pc' = Returned
                 /\ UNCHANGED <<sleeps, attempt>>
            ELSE IF attempt < max_retries - 1
            THEN /\ msgs' = msgs \o <<"Command failed", "Push failed, retrying">>
                 /\ sleeps' = Append(sleeps, retry_delays[attempt + 1])
                 /\ attempt' = attempt + 1
                 /\ pc' = IF attempt + 1 < max_retries THEN "push" ELSE Returned
            ELSE /\ msgs' = msgs \o <<"Command failed", "Failed to push after attempts">>
                 /\ pc' = Returned
                 /\ UNCHANGED <<sleeps, attempt>>
    /\ UNCHANGED <<ctx, hookRan, ops, variant, entry, status, nonEmpty, gitDir, gitInitialized, language,
                   origin, templates, files, hookExec, prompts, call>>

\* quick_init_project.setup_remote_and_push up to the retry loop. Every command is
\* run with check=False.
Quick_setup_remote_and_push ==
    /\ variant = "quick" /\ status = "running" /\ pc = "pub"
    /\ \E answer \in Answers, url \in Urls, rcAdd \in ReturnCodes :
         LET rc == get_url_returncode(origin)
             queried == Append(cmds, Ran(GitRemoteGetUrl, rc))
             remote_url == Strip(url)
         IN  IF run(rc, FALSE) = "exit1"
             THEN /\ cmds' = queried
                  /\ msgs' = Append(msgs, "Error")
                  /\ status' = "exit1"
                  /\ pc' = "exited"
                  /\ UNCHANGED <<prompts, origin>>
             ELSE IF rc = 0
             THEN /\ prompts' = Append(prompts, Asked("Push to this remote? (y/n)", answer))
                  /\ cmds' = queried
                  /\ IF ~Confirmed(answer)
                     THEN /\ msgs' = Append(msgs, "Skipping push to remote.")
                          /\ pc' = Returned
                     ELSE /\ msgs' = msgs
                          /\ pc' = "push"
                  /\ UNCHANGED <<origin, status>>
             ELSE IF ~Confirmed(answer)
             THEN /\ prompts' = Append(prompts, Asked("Add a remote repository? (y/n)", answer))
                  /\ cmds' = queried
                  /\ msgs' = Append(msgs, "Skipping remote setup.")
                  /\ pc' = Returned
                  /\ UNCHANGED <<origin, status>>
             ELSE IF remote_url = <<>>
             THEN /\ prompts' = prompts \o <<Asked("Add a remote repository? (y/n)", answer),
                                             Asked("Enter remote repository URL", url)>>
                  /\ cmds' = queried
                  /\ msgs' = Append(msgs, "No URL provided, skipping remote setup.")
                  /\ pc' = Returned
                  /\ UNCHANGED <<origin, status>>
             ELSE /\ prompts' = prompts \o <<Asked("Add a remote repository? (y/n)", answer),
                                             Asked("Enter remote repository URL", url)>>
                  /\ cmds' = Append(queried, Ran(GitRemoteAdd, rcAdd))
                  /\ IF run(rcAdd, FALSE) = "exit1"
                     THEN /\ msgs' = Append(msgs, "Error")
                          /\ status' = "exit1"
                          /\ pc' = "exited"
                          /\ UNCHANGED origin
                     ELSE IF rcAdd # 0
                     THEN /\ msgs' = Append(msgs, "Failed to add remote")
                          /\ pc' = Returned
                          /\ UNCHANGED <<origin, status>>
                     ELSE /\ origin' = remote_url
                          /\ msgs' = Append(msgs, "Remote added successfully")
                          /\ pc' = "push"
                          /\ UNCHANGED status
    /\ attempt' = 0
    /\ UNCHANGED <<ctx, hookRan, ops, variant, entry, nonEmpty, gitDir, gitInitialized, language,
                   templates, files, hookExec, sleeps, call>>

\* One iteration of the retry loop of quick_init_project.setup_remote_and_push.
Quick_push_attempt ==
    /\ variant = "quick" /\ status = "running" /\ pc = "push"
    /\ attempt < quick_max_retries
    /\ \E rc \in ReturnCodes :
         /\ cmds' = Append(cmds, Ran(GitPush, rc))
         /\ IF run(rc, FALSE) = "exit1"
            THEN /\ msgs' = Append(msgs, "Error")
                 /\ status' = "exit1"
                 /\ pc' = "exited"
                 /\ UNCHANGED <<sleeps, attempt>>
            ELSE IF rc = 0
            THEN /\ msgs' = Append(msgs, "Successfully pushed to remote!")
                 /\ pc' = Returned
                 /\ UNCHANGED <<sleeps, attempt, status>>
            ELSE IF attempt < quick_max_retries - 1
            THEN /\ msgs' = Append(msgs, "Push failed, retrying")
                 /\ sleeps' = Append(sleeps, quick_retry_delays[attempt + 1])
                 /\ attempt' = attempt + 1
                 /\ pc' = IF attempt + 1 < quick_max_retries THEN "push" ELSE Returned
                 /\ UNCHANGED status
            ELSE /\ msgs' = Append(msgs, "Failed to push after attempts")
                 /\ pc' = Returned
                 /\ UNCHANGED <<sleeps, attempt, status>>
    /\ UNCHANGED <<ctx, hookRan, ops, variant, entry, nonEmpty, gitDir, gitInitialized, language, origin,
                   templates, files, hookExec, prompts, call>>

\* ------------------------------------------------- ProjectInitializer.run
\* create_gitignore with no fallback to the generic template.
gitignore_template_name_specific(lang) == GitignoreTemplate(lang)

\* create_gitignore: the template name given to copy_template.
gitignore_template_name(lang) ==
    IF ~TemplateExists(GitignoreTemplate(lang)) THEN "gitignore.generic"
    ELSE GitignoreTemplate(lang)

\* A check that finds the review CLI whatever `which` returns.
check_coderabbit_installed_always(rc) == TRUE

\* check_coderabbit_installed: `which coderabbit`, unchecked, returned 0.
check_coderabbit_installed(rc) == run_command(rc, FALSE) = "returned" /\ rc = 0

\* The mode setup_precommit_hook gives the hook: 0o755.
hook_mode == 493

\* The hook copied after its mode is set.
setup_precommit_hook_calls_swapped ==
    << Op("mkdir", ".git/hooks"), Chmod(".git/hooks/pre-commit", hook_mode),
       Op("copy_template", "pre-commit") >>

\* setup_precommit_hook: the calls it makes, in order.
setup_precommit_hook_calls ==
    << Op("mkdir", ".git/hooks"), Op("copy_template", "pre-commit"),
       Chmod(".git/hooks/pre-commit", hook_mode) >>

NoCall == [name |-> "", dest |-> "", vars |-> None, content |-> Absent]

\* The entries whose name does not start with a dot.
NonHidden(entries) == { f \in entries : ~StartsWith(f, <<".">>) }

\* A folder that counts as empty whatever it holds.
check_empty_folder_always(entries) == TRUE

\* check_empty_folder: no entry of the project directory is left after the hidden
\* ones are filtered out.
check_empty_folder(entries) == Cardinality(NonHidden(entries)) = 0

\* The status of a process ended by sys.exit(code).
Exited(code) == IF code = 0 THEN "exit0" ELSE "exit1"

\* run: the argument of sys.exit when the operator declines.
full_decline_exit == 0

\* run: the check of the folder and the prompt to continue.
Full_run_check_empty ==
    /\ variant = "full" /\ status = "running" /\ pc = "start"
    /\ \E answer \in Answers :
         IF ~check_empty_folder(listing)
         THEN /\ prompts' = Append(prompts, Asked("Folder is not empty. Continue anyway? (y/n)", answer))
              /\ IF ~Confirmed(answer)
                 THEN /\ msgs' = Append(msgs, "Aborting...")
                      /\ status' = Exited(full_decline_exit)
                      /\ pc' = "exited"
                 ELSE /\ msgs' = msgs
                      /\ status' = status
                      /\ pc' = "init_git"
         ELSE /\ pc' = "init_git"
              /\ UNCHANGED <<prompts, msgs, status>>
    /\ UNCHANGED <<ctx, hookRan, ops, variant, entry, nonEmpty, gitDir, gitInitialized, language, origin,
                   templates, files, hookExec, cmds, sleeps, attempt, call>>

\* The branch renamed before the repository is created.
init_git_commands_swapped == <<GitBranch, GitInit>>

\* init_git: the commands it runs when .git does not exist, in order.
init_git_commands == <<GitInit, GitBranch>>

\* init_git that reports an existing repository as initialized by the run.
init_git_existing_true == TRUE

\* init_git: what it returns when .git exists.
init_git_existing == FALSE

\* run: git_initialized = self.init_git()
Full_init_git ==
    /\ variant = "full" /\ status = "running" /\ pc = "init_git"
    /\ \E rcInit \in ReturnCodes, rcBranch \in ReturnCodes :
         IF gitDir
         THEN /\ msgs' = Append(msgs, "Git already initialized, skipping...")
              /\ gitInitialized' = init_git_existing
              /\ pc' = "gitignore"
              /\ UNCHANGED <<cmds, gitDir, status>>
         ELSE IF run_command(rcInit, TRUE) = "CalledProcessError"
         THEN /\ cmds' = Append(cmds, Ran(init_git_commands[1], rcInit))
              /\ msgs' = Append(msgs, "Command failed")
              /\ status' = "raised"
              /\ pc' = "aborted"
              /\ UNCHANGED <<gitDir, gitInitialized>>
         ELSE IF run_command(rcBranch, TRUE) = "CalledProcessError"
         THEN /\ cmds' = cmds \o <<Ran(init_git_commands[1], rcInit), Ran(init_git_commands[2], rcBranch)>>
              /\ gitDir' = TRUE
              /\ msgs' = Append(msgs, "Command failed")
              /\ status' = "raised"
              /\ pc' = "aborted"
              /\ UNCHANGED gitInitialized
         ELSE /\ cmds' = cmds \o <<Ran(init_git_commands[1], rcInit), Ran(init_git_commands[2], rcBranch)>>
              /\ gitDir' = TRUE
              /\ msgs' = Append(msgs, "Git initialized with main branch")
              /\ gitInitialized' = TRUE
              /\ pc' = "gitignore"
              /\ UNCHANGED status
    /\ UNCHANGED <<ctx, hookRan, ops, variant, entry, nonEmpty, language, origin, templates, files, hookExec,
                   prompts, sleeps, attempt, call>>

\* run: self.create_gitignore(language)
Full_create_gitignore ==
    /\ variant = "full" /\ status = "running" /\ pc = "gitignore"
    /\ LET specific == GitignoreTemplate(language)
           template_name == gitignore_template_name(language)
       IN  /\ files' = copy_template(template_name, ".gitignore", None)
           /\ ops' = Append(ops, Op("copy_template", template_name))
           /\ call' = Called(template_name, ".gitignore", None)
           /\ msgs' = msgs
                      \o (IF ~TemplateExists(specific)
                          THEN <<"Template for language not found, using generic...">>
                          ELSE <<>>)
                      \o <<copy_template_msg(template_name)>>
    /\ pc' = "gitattributes"
    /\ UNCHANGED <<ctx, hookRan, variant, entry, status, nonEmpty, gitDir, gitInitialized, language,
                   origin, templates, hookExec, cmds, prompts, sleeps, attempt>>

\* run: self.create_git_attributes()
Full_create_git_attributes ==
    /\ variant = "full" /\ status = "running" /\ pc = "gitattributes"
    /\ files' = copy_template("gitattributes", ".gitattributes", None)
    /\ ops' = Append(ops, Op("copy_template", "gitattributes"))
    /\ call' = Called("gitattributes", ".gitattributes", None)
    /\ msgs' = Append(msgs, copy_template_msg("gitattributes"))
    /\ pc' = "coderabbit"
    /\ UNCHANGED <<ctx, hookRan, variant, entry, status, nonEmpty, gitDir, gitInitialized, language,
                   origin, templates, hookExec, cmds, prompts, sleeps, attempt>>

\* run: self.setup_coderabbit_cli()
Full_setup_coderabbit_cli ==
    /\ variant = "full" /\ status = "running" /\ pc = "coderabbit"
    /\ \E rc \in ReturnCodes :
         /\ cmds' = Append(cmds, Ran(WhichCoderabbit, rc))
         /\ msgs' = msgs
                    \o <<IF check_coderabbit_installed(rc)
                         THEN "CodeRabbit CLI is installed"
                         ELSE "CodeRabbit CLI is not installed">>
                    \o <<copy_template_msg("coderabbit.yaml")>>
    /\ files' = copy_template("coderabbit.yaml", ".coderabbit.yaml", None)
    /\ ops' = Append(ops, Op("copy_template", "coderabbit.yaml"))
    /\ call' = Called("coderabbit.yaml", ".coderabbit.yaml", None)
    /\ pc' = "hook"
    /\ UNCHANGED <<ctx, hookRan, variant, entry, status, nonEmpty, gitDir, gitInitialized, language,
                   origin, templates, hookExec, prompts, sleeps, attempt>>

\* run: if git_initialized: self.setup_precommit_hook(). chmod of a file that was
\* not written raises FileNotFoundError, which nothing catches.
Full_setup_precommit_hook ==
    /\ variant = "full" /\ status = "running" /\ pc = "hook"
    /\ IF gitInitialized
       THEN /\ files' = copy_template("pre-commit", ".git/hooks/pre-commit", None)
            /\ call' = Called("pre-commit", ".git/hooks/pre-commit", None)
            /\ ops' = ops \o setup_precommit_hook_calls
            /\ IF files'[".git/hooks/pre-commit"] = Absent
               THEN /\ msgs' = Append(msgs, copy_template_msg("pre-commit"))
                    /\ status' = "raised"
                    /\ pc' = "aborted"
                    /\ UNCHANGED hookExec
               ELSE /\ msgs' = msgs \o <<copy_template_msg("pre-commit"),
                                         "Pre-commit hook created and made executable">>
                    /\ hookExec' = (hook_mode = 493)
                    /\ pc' = "readme"
                    /\ UNCHANGED status
       ELSE /\ pc' = "readme"
            /\ UNCHANGED <<files, call, ops, msgs, status, hookExec>>
    /\ UNCHANGED <<ctx, hookRan, variant, entry, nonEmpty, gitDir, gitInitialized, language, origin,
                   templates, cmds, prompts, sleeps, attempt>>

\* run: if create_readme: self.create_readme()
Full_create_readme ==
    /\ variant = "full" /\ status = "running" /\ pc = "readme"
    /\ \E create_readme \in BOOLEAN :
         LET replace_vars == Map(<< <<PROJECT_NAME, ProjectPathName>> >>)
         IN  IF create_readme
             THEN /\ files' = copy_template("README.md", "README.md", replace_vars)
                  /\ call' = Called("README.md", "README.md", replace_vars)
                  /\ ops' = Append(ops, Op("copy_template", "README.md"))
                  /\ msgs' = Append(msgs, copy_template_msg("README.md"))
             ELSE UNCHANGED <<files, call, ops, msgs>>
    /\ pc' = "commit"
    /\ UNCHANGED <<ctx, hookRan, variant, entry, status, nonEmpty, gitDir, gitInitialized, language,
                   origin, templates, hookExec, cmds, prompts, sleeps, attempt>>

\* The command line has the option that bypasses the hooks.
NoVerify(args) == \E i \in DOMAIN args : args[i] = "--no-verify"

\* git runs the pre-commit hook for a commit when the hook exists, is executable
\* and is not bypassed.
HookRuns(args) == files[".git/hooks/pre-commit"] # Absent /\ hookExec /\ ~NoVerify(args)

\* run: the command line of the initial commit.
full_commit_args ==
    <<"git", "commit", "--no-verify", "-m",
      "Initial commit: Project setup with CodeRabbit CLI">>

\* A check that reports both values configured whatever git answers.
check_git_config_always(rcName, rcEmail) == <<TRUE, TRUE>>

\* check_git_config: (user_name.returncode == 0, user_email.returncode == 0)
check_git_config(rcName, rcEmail) == <<rcName = 0, rcEmail = 0>>

\* run: the initial commit, up to the call of setup_remote_and_push.
Full_initial_commit ==
    /\ variant = "full" /\ status = "running" /\ pc = "commit"
    /\ \E rcName \in ReturnCodes, rcEmail \in ReturnCodes,
          rcAdd \in ReturnCodes, rcCommit \in ReturnCodes :
         LET config == <<Ran(GitConfigName, rcName), Ran(GitConfigEmail, rcEmail)>>
             has_name == check_git_config(rcName, rcEmail)[1]
             has_email == check_git_config(rcName, rcEmail)[2]
         IN  /\ hookRan' = (hookRan \/ (/\ gitInitialized /\ has_name /\ has_email
                                        /\ rcAdd = 0 /\ HookRuns(full_commit_args)))
             /\ IF ~gitInitialized
                THEN /\ pc' = "complete"
                     /\ UNCHANGED <<cmds, msgs, status>>
                ELSE IF ~has_name \/ ~has_email
                THEN /\ cmds' = cmds \o config
                     /\ msgs' = Append(msgs, "Git user not configured. Skipping initial commit.")
                     /\ pc' = "complete"
                     /\ UNCHANGED status
                ELSE IF run_command(rcAdd, TRUE) = "CalledProcessError"
                THEN /\ cmds' = cmds \o config \o <<Ran(GitAdd, rcAdd)>>
                     /\ msgs' = Append(msgs, "Command failed")
                     /\ status' = "raised"
                     /\ pc' = "aborted"
                ELSE IF run_command(rcCommit, TRUE) = "CalledProcessError"
                THEN /\ cmds' = cmds \o config \o <<Ran(GitAdd, rcAdd), Ran(GitCommit, rcCommit)>>
                     /\ msgs' = Append(msgs, "Command failed")
                     /\ status' = "raised"
                     /\ pc' = "aborted"
                ELSE /\ cmds' = cmds \o config \o <<Ran(GitAdd, rcAdd), Ran(GitCommit, rcCommit)>>
                     /\ msgs' = Append(msgs, "Initial commit created")
                     /\ pc' = "pub"
                     /\ UNCHANGED status
    /\ UNCHANGED <<ctx, ops, variant, entry, nonEmpty, gitDir, gitInitialized, language, origin,
                   templates, files, hookExec, prompts, sleeps, attempt, call>>

Complete == "complete!"

\* run: the completion message and the next steps.
Full_run_complete ==
    /\ variant = "full" /\ status = "running" /\ pc = "complete"
    /\ \E rc \in ReturnCodes :
         cmds' = Append(cmds, Ran(WhichCoderabbit, rc))
    /\ msgs' = Append(msgs, Complete)
    /\ status' = "done"
    /\ pc' = "done"
    /\ UNCHANGED <<ctx, hookRan, ops, variant, entry, nonEmpty, gitDir, gitInitialized, language, origin,
                   templates, files, hookExec, prompts, sleeps, attempt, call>>

\* The methods class ProjectInitializer defines.
ProjectInitializerMethods ==
    { "__init__", "_create_basic_templates", "check_empty_folder", "run_command",
      "check_coderabbit_installed", "print_coderabbit_install_instructions",
      "init_git", "copy_template", "create_gitignore", "create_git_attributes",
      "setup_precommit_hook", "setup_coderabbit_cli", "create_readme",
      "print_workflow_explanation", "check_git_config", "setup_remote_and_push",
      "run" }

\* A call initializer.setup_llm_provider_rules(project_name): the class defines no
\* such method, so the attribute lookup raises AttributeError before any
\* statement of a body runs.
Full_setup_llm_provider_rules ==
    /\ variant = "full" /\ entry = "setup_llm_provider_rules"
    /\ status = "running" /\ pc = "call"
    /\ entry \notin ProjectInitializerMethods
    /\ msgs' = Append(msgs, "AttributeError")
    /\ status' = "raised"
    /\ pc' = "aborted"
    /\ UNCHANGED <<ctx, hookRan, ops, variant, entry, nonEmpty, gitDir, gitInitialized, language, origin,
                   templates, files, hookExec, cmds, prompts, sleeps, attempt, call>>

\* ------------------------------------------------ quick_init_project.main
\* load_template that gives the empty text for a missing file.
load_template_empty(template_name) ==
    IF TemplateExists(template_name) THEN templates[template_name] ELSE <<>>

\* load_template: the text of the template, or None (here Absent).
load_template(template_name) ==
    IF TemplateExists(template_name) THEN templates[template_name] ELSE Absent

\* The mode main gives the hook: 0o755.
quick_hook_mode == 493

\* main: the calls of the pre-commit hook step, in order.
quick_precommit_hook_calls ==
    << Op("mkdir", ".git/hooks"), Op("write_text", ".git/hooks/pre-commit"),
       Chmod(".git/hooks/pre-commit", quick_hook_mode) >>

\* A test that takes the empty text for a template to copy.
Truthy_not_none(content) == content # Absent

\* `if content:` is false for None and for the empty text.
Truthy(content) == content # Absent /\ content # <<>>

\* The built-in texts main writes when a template gives nothing.
MinimalGitignore == <<"m", "i">>
MinimalGitattributes == <<"m", "a">>
MinimalCoderabbit == <<"m", "c">>
MinimalHook == <<"m", "h">>

\* An exit that reports a failure when the operator declines.
quick_decline_exit_failure == 0 + 1

\* main: the argument of sys.exit when the operator declines.
quick_decline_exit == 0

\* main: the check of the folder and the prompt to continue.
Quick_check_empty ==
    /\ variant = "quick" /\ status = "running" /\ pc = "start"
    /\ \E answer \in Answers :
         IF NonHidden(listing) # {}
         THEN /\ prompts' = Append(prompts, Asked("Continue? (y/n)", answer))
              /\ IF ~Confirmed(answer)
                 THEN /\ msgs' = Append(msgs, "Folder not empty!")
                      /\ status' = Exited(quick_decline_exit)
                      /\ pc' = "exited"
                 ELSE /\ msgs' = Append(msgs, "Folder not empty!")
                      /\ status' = status
                      /\ pc' = "init_git"
         ELSE /\ pc' = "init_git"
              /\ UNCHANGED <<prompts, msgs, status>>
    /\ UNCHANGED <<ctx, hookRan, ops, variant, entry, nonEmpty, gitDir, gitInitialized, language, origin,
                   templates, files, hookExec, cmds, sleeps, attempt, call>>

\* main: git init and the branch rename, when .git does not exist.
Quick_git_init ==
    /\ variant = "quick" /\ status = "running" /\ pc = "init_git"
    /\ \E rcInit \in ReturnCodes, rcBranch \in ReturnCodes :
         IF gitDir
         THEN /\ pc' = "gitignore"
              /\ UNCHANGED <<cmds, msgs, gitDir, status>>
         ELSE IF run(rcInit, TRUE) = "exit1"
         THEN /\ cmds' = Append(cmds, Ran(GitInit, rcInit))
              /\ msgs' = Append(msgs, "Error")
              /\ status' = "exit1"
              /\ pc' = "exited"
              /\ UNCHANGED gitDir
         ELSE IF run(rcBranch, TRUE) = "exit1"
         THEN /\ cmds' = cmds \o <<Ran(GitInit, rcInit), Ran(GitBranch, rcBranch)>>
              /\ gitDir' = TRUE
              /\ msgs' = Append(msgs, "Error")
              /\ status' = "exit1"
              /\ pc' = "exited"
         ELSE /\ cmds' = cmds \o <<Ran(GitInit, rcInit), Ran(GitBranch, rcBranch)>>
              /\ gitDir' = TRUE
              /\ msgs' = Append(msgs, "Git initialized")
              /\ pc' = "gitignore"
              /\ UNCHANGED status
    /\ UNCHANGED <<ctx, hookRan, ops, variant, entry, nonEmpty, gitInitialized, language, origin, templates,
                   files, hookExec, prompts, sleeps, attempt, call>>

\* main: .gitignore from the template, or the minimal version.
Quick_gitignore ==
    /\ variant = "quick" /\ status = "running" /\ pc = "gitignore"
    /\ LET gitignore_content == load_template("gitignore.python")
       IN  IF Truthy(gitignore_content)
           THEN /\ files' = [files EXCEPT ![".gitignore"] = gitignore_content]
                /\ msgs' = Append(msgs, ".gitignore created from template")
           ELSE /\ files' = [files EXCEPT ![".gitignore"] = MinimalGitignore]
                /\ msgs' = Append(msgs, ".gitignore created (minimal)")
    /\ ops' = Append(ops, Op("write_text", ".gitignore"))
    /\ pc' = "gitattributes"
    /\ UNCHANGED <<ctx, hookRan, variant, entry, status, nonEmpty, gitDir, gitInitialized, language,
                   origin, templates, hookExec, cmds, prompts, sleeps, attempt, call>>

\* main: .gitattributes from the template, or the minimal version.
Quick_gitattributes ==
    /\ variant = "quick" /\ status = "running" /\ pc = "gitattributes"
    /\ LET gitattributes_content == load_template("gitattributes")
       IN  IF Truthy(gitattributes_content)
           THEN /\ files' = [files EXCEPT ![".gitattributes"] = gitattributes_content]
                /\ msgs' = Append(msgs, ".gitattributes created from template")
           ELSE /\ files' = [files EXCEPT ![".gitattributes"] = MinimalGitattributes]
                /\ msgs' = Append(msgs, ".gitattributes created (minimal)")
    /\ ops' = Append(ops, Op("write_text", ".gitattributes"))
    /\ pc' = "coderabbit"
    /\ UNCHANGED <<ctx, hookRan, variant, entry, status, nonEmpty, gitDir, gitInitialized, language,
                   origin, templates, hookExec, cmds, prompts, sleeps, attempt, call>>

\* main: .coderabbit.yaml from the template, or the minimal version, and the check
\* that the review CLI is installed.
Quick_coderabbit ==
    /\ variant = "quick" /\ status = "running" /\ pc = "coderabbit"
    /\ \E rc \in ReturnCodes :
         LET coderabbit_content == load_template("coderabbit.yaml")
             coderabbit_installed == run(rc, FALSE) = "returned" /\ rc = 0
         IN  /\ cmds' = Append(cmds, Ran(WhichCoderabbit, rc))
             /\ IF Truthy(coderabbit_content)
                THEN files' = [files EXCEPT ![".coderabbit.yaml"] = coderabbit_content]
                ELSE files' = [files EXCEPT ![".coderabbit.yaml"] = MinimalCoderabbit]
             /\ msgs' = msgs
                        \o <<IF Truthy(coderabbit_content)
                             THEN "CodeRabbit config created from template"
                             ELSE "CodeRabbit config created (minimal)">>
                        \o <<IF coderabbit_installed THEN "CodeRabbit CLI is installed"
                             ELSE "CodeRabbit CLI not installed">>
    /\ ops' = Append(ops, Op("write_text", ".coderabbit.yaml"))
    /\ pc' = "hook"
    /\ UNCHANGED <<ctx, hookRan, variant, entry, status, nonEmpty, gitDir, gitInitialized, language,
                   origin, templates, hookExec, prompts, sleeps, attempt, call>>

\* main: the pre-commit hook from the template, or the minimal version, made
\* executable.
Quick_precommit_hook ==
    /\ variant = "quick" /\ status = "running" /\ pc = "hook"
    /\ LET hook_content == load_template("pre-commit")
       IN  IF Truthy(hook_content)
           THEN /\ files' = [files EXCEPT ![".git/hooks/pre-commit"] = hook_content]
                /\ msgs' = Append(msgs, "Pre-commit hook created from template")
           ELSE /\ files' = [files EXCEPT ![".git/hooks/pre-commit"] = MinimalHook]
                /\ msgs' = Append(msgs, "Pre-commit hook created (minimal)")
    /\ ops' = ops \o quick_precommit_hook_calls
    /\ hookExec' = (quick_hook_mode = 493)
    /\ pc' = "commit"
    /\ UNCHANGED <<ctx, hookRan, variant, entry, status, nonEmpty, gitDir, gitInitialized, language,
                   origin, templates, cmds, prompts, sleeps, attempt, call>>

\* main: the command line of the initial commit.
quick_commit_args ==
    <<"git", "commit", "--no-verify", "-m",
      "Initial commit: Project setup with CodeRabbit CLI">>

\* main: the initial commit, up to the call of setup_remote_and_push.
Quick_initial_commit ==
    /\ variant = "quick" /\ status = "running" /\ pc = "commit"
    /\ \E rcName \in ReturnCodes, rcEmail \in ReturnCodes,
          rcAdd \in ReturnCodes, rcCommit \in ReturnCodes :
         LET config == <<Ran(GitConfigName, rcName), Ran(GitConfigEmail, rcEmail)>>
         IN  /\ hookRan' = (hookRan \/ (/\ rcName = 0 /\ rcEmail = 0 /\ rcAdd = 0
                                        /\ HookRuns(quick_commit_args)))
             /\ IF ~(run(rcName, FALSE) = "returned" /\ rcName = 0
                     /\ run(rcEmail, FALSE) = "returned" /\ rcEmail = 0)
                THEN /\ cmds' = cmds \o config
                     /\ msgs' = Append(msgs, "Git user not configured - skipping initial commit")
                     /\ pc' = "complete"
                     /\ UNCHANGED status
                ELSE IF run(rcAdd, TRUE) = "exit1"
                THEN /\ cmds' = cmds \o config \o <<Ran(GitAdd, rcAdd)>>
                     /\ msgs' = Append(msgs, "Error")
                     /\ status' = "exit1"
                     /\ pc' = "exited"
                ELSE IF run(rcCommit, TRUE) = "exit1"
                THEN /\ cmds' = cmds \o config \o <<Ran(GitAdd, rcAdd), Ran(GitCommit, rcCommit)>>
                     /\ msgs' = Append(msgs, "Error")
                     /\ status' = "exit1"
                     /\ pc' = "exited"
                ELSE /\ cmds' = cmds \o config \o <<Ran(GitAdd, rcAdd), Ran(GitCommit, rcCommit)>>
                     /\ msgs' = Append(msgs, "Initial commit done")
                     /\ pc' = "pub"
                     /\ UNCHANGED status
    /\ UNCHANGED <<ctx, ops, variant, entry, nonEmpty, gitDir, gitInitialized, language, origin,
                   templates, files, hookExec, prompts, sleeps, attempt, call>>

\* main: the completion message and what follows it.
Quick_main_done ==
    /\ variant = "quick" /\ status = "running" /\ pc = "complete"
    /\ msgs' = Append(msgs, Complete)
    /\ status' = "done"
    /\ pc' = "done"
    /\ UNCHANGED <<ctx, hookRan, ops, variant, entry, nonEmpty, gitDir, gitInitialized, language, origin,
                   templates, files, hookExec, cmds, prompts, sleeps, attempt, call>>

\* ------------------------------------------------------------ specification
\* Names of entries of a project directory.
DotGit == <<".", "g", "i", "t">>

SomeFile == <<"a">>

\* The project directory of a run: .git when the repository exists, and one file
\* when the folder is not empty.
Listing(git, file) ==
    (IF git THEN {DotGit} ELSE {}) \cup (IF file THEN {SomeFile} ELSE {})

\* The paths a templates directory can have.
TemplatePaths == { "script/templates", "cwd/templates", "custom/templates" }

\* What a path holds: nothing, a regular file, or a directory of template files.
NoEntry == [kind |-> "absent", entries |-> [n \in {} |-> Absent]]

FileEntry == [kind |-> "file", entries |-> [n \in {} |-> Absent]]

Dir(entries) == [kind |-> "dir", entries |-> entries]

\* Path.exists()
Exists(e) == e.kind # "absent"

NoDisk == [p \in TemplatePaths |-> NoEntry]

\* No ProjectInitializer is being constructed.
NoConstruction == disk = NoDisk /\ templates_dir = ""

OptionNames ==
    { "create_readme", "setup_docker", "setup_precommit", "setup_coderabbit",
      "create_initial_commit", "explain_workflow" }

NoOptions == [o \in OptionNames |-> FALSE]

NoChecks == [coderabbit |-> FALSE, folder_empty |-> FALSE, git_configured |-> FALSE]

\* The TUI is not running.
NoTui == options = NoOptions /\ checks = NoChecks

NoPair == <<>>

\* The text of each template file of a templates directory.
TemplateText(name) ==
    CASE name = "gitignore.python" -> <<"i", "p">>
      [] name = "gitignore.generic" -> <<"i", "g">>
      [] name = "gitattributes" -> <<"a">>
      [] name = "coderabbit.yaml" -> <<"c">>
      [] name = "pre-commit" -> <<"h">>
      [] name = "README.md" -> <<"#", " ">> \o Placeholder(PROJECT_NAME)

\* The templates _create_basic_templates writes.
BasicTemplates == {"gitignore.python", "gitattributes", "coderabbit.yaml"}

\* The templates directories of a run: complete, with one file missing, holding
\* only the basic templates, or empty.
TemplateDirs ==
    { [n \in TemplateNames |-> IF n \in missing THEN Absent ELSE TemplateText(n)] :
        missing \in {{}} \cup {{n} : n \in TemplateNames}
                       \cup {TemplateNames \ BasicTemplates, TemplateNames} }

NoFiles == [d \in Destinations |-> Absent]

\* A run of run or main from its first line, a call of setup_remote_and_push in
\* a repository that has a commit, or a call of setup_llm_provider_rules on a
\* ProjectInitializer.
Init ==
    /\ variant \in {"full", "quick"}
    /\ entry \in {"run", "setup_remote_and_push", "setup_llm_provider_rules"}
    /\ entry = "setup_llm_provider_rules" => variant = "full"
    /\ status = "running"
    /\ gitInitialized = FALSE
    /\ files = NoFiles
    /\ hookExec = FALSE
    /\ cmds = <<>> /\ prompts = <<>> /\ sleeps = <<>> /\ msgs = <<>>
    /\ attempt = 0
    /\ call = NoCall
    /\ ops = <<>>
    /\ hookRan = FALSE
    /\ NoConstruction /\ NoTui /\ pair = NoPair
    /\ IF entry = "run"
       THEN /\ pc = "start"
            /\ nonEmpty \in BOOLEAN
            /\ gitDir \in BOOLEAN
            /\ language \in IF variant = "full" THEN {"python", "go"} ELSE {"python"}
            /\ templates \in TemplateDirs
            /\ origin \in IF gitDir THEN {Absent, <<"u">>} ELSE {Absent}
       ELSE IF entry = "setup_llm_provider_rules"
       THEN /\ pc = "call"
            /\ nonEmpty = FALSE
            /\ gitDir \in BOOLEAN
            /\ language = "python"
            /\ templates \in TemplateDirs
            /\ origin = Absent
       ELSE /\ pc = "pub"
            /\ nonEmpty = TRUE
            /\ gitDir = TRUE
            /\ language = "python"
            /\ templates = [n \in TemplateNames |-> TemplateText(n)]
            /\ origin \in {Absent, <<"u">>}
    /\ listing = Listing(gitDir, nonEmpty)

Next ==
    \/ Full_run_check_empty
    \/ Full_init_git
    \/ Full_create_gitignore
    \/ Full_create_git_attributes
    \/ Full_setup_coderabbit_cli
    \/ Full_setup_precommit_hook
    \/ Full_create_readme
    \/ Full_initial_commit
    \/ Full_setup_remote_and_push
    \/ Full_push_attempt
    \/ Full_run_complete
    \/ Full_setup_llm_provider_rules
    \/ Quick_check_empty
    \/ Quick_git_init
    \/ Quick_gitignore
    \/ Quick_gitattributes
    \/ Quick_coderabbit
    \/ Quick_precommit_hook
    \/ Quick_initial_commit
    \/ Quick_setup_remote_and_push
    \/ Quick_push_attempt
    \/ Quick_main_done

Spec == Init /\ [][Next]_vars

\* Sequential execution: a script that can take its next step takes it.
FairSpec == Spec /\ WF_vars(Next)

\* ------------------------------------------------------------------ claims
Invoked(cmd) == SelectSeq(cmds, LAMBDA c : c.cmd = cmd)

Pushes == Invoked(GitPush)

FailedPush(i) == Pushes[i].rc # 0

AnswersTo(prompt) == SelectSeq(prompts, LAMBDA q : q.prompt = prompt)

Said(msg) == \E i \in DOMAIN msgs : msgs[i] = msg

\* setup_remote_and_push has returned to its caller without raising or exiting.
ReturnedNormally ==
    /\ status \in {"running", "done"}
    /\ pc \in (IF entry = "run" THEN {"complete", "done"} ELSE {"returned"})

\* The operator answers no.
Declines == { <<"n">>, <<"N">> }

\* The operator answers yes.
Agrees == { <<"y">>, <<"Y">> }

Schedule == <<2, 4, 8, 16>>

\* C1: a push that fails on attempts 1..k-1 and succeeds on attempt k (k in 1..4) is
\* preceded by exactly k-1 sleeps, of the first k-1 durations of 2, 4, 8, 16 in
\* order; after the success there is no further push and no further sleep, and the
\* function has returned.
C1_SuccessOnAttemptK ==
    \A k \in 1..4 :
        ( /\ Len(Pushes) >= k
          /\ Pushes[k].rc = 0
          /\ \A i \in 1..(k - 1) : FailedPush(i) )
        => /\ Len(Pushes) = k
           /\ sleeps = SubSeq(Schedule, 1, k - 1)
           /\ Said("Successfully pushed to remote!")
           /\ ReturnedNormally

C1_Witness ==
    /\ variant = "full"
    /\ Len(Pushes) = 4
    /\ Pushes[4].rc = 0
    /\ \A i \in 1..3 : FailedPush(i)

\* C2: there is never a 5th push; while every push so far has failed and fewer
\* than 4 were made the function is still retrying, having slept once per failure;
\* after 4 failed pushes the sleeps were exactly 2, 4, 8, the failure is reported
\* and the function has returned without raising or exiting.
C2_AllAttemptsFail ==
    /\ Len(Pushes) <= 4
    /\ (Len(Pushes) > 0 /\ \A i \in DOMAIN Pushes : FailedPush(i))
       => IF Len(Pushes) < 4
          THEN /\ pc = "push"
               /\ status = "running"
               /\ sleeps = SubSeq(Schedule, 1, Len(Pushes))
          ELSE /\ sleeps = <<2, 4, 8>>
               /\ Said("Failed to push after attempts")
               /\ ReturnedNormally

C2_Witness ==
    /\ variant = "quick"
    /\ Len(Pushes) = 4
    /\ \A i \in DOMAIN Pushes : FailedPush(i)

\* C3: when no origin remote is configured and the operator answers no to adding
\* one, the repository has no origin remote afterwards, git remote add and git push
\* are not invoked, and the function has returned.
C3_DeclineAddRemote ==
    ( /\ Len(Invoked(GitRemoteGetUrl)) = 1
      /\ Invoked(GitRemoteGetUrl)[1].rc # 0
      /\ Len(AnswersTo("Add a remote repository? (y/n)")) = 1
      /\ AnswersTo("Add a remote repository? (y/n)")[1].answer \in Declines )
    => /\ origin = Absent
       /\ Invoked(GitRemoteAdd) = <<>>
       /\ Pushes = <<>>
       /\ AnswersTo("Enter remote repository URL") = <<>>
       /\ ReturnedNormally

C3_Witness ==
    /\ Len(AnswersTo("Add a remote repository? (y/n)")) = 1
    /\ AnswersTo("Add a remote repository? (y/n)")[1].answer = <<"N">>
    /\ origin = Absent
    /\ pc = "complete"

\* C4: when an origin remote exists and the operator answers no to the push
\* confirmation, git push is not invoked and the function has returned without
\* raising or exiting.
C4_DeclinePushToExisting ==
    ( /\ Len(Invoked(GitRemoteGetUrl)) = 1
      /\ Invoked(GitRemoteGetUrl)[1].rc = 0
      /\ Len(AnswersTo("Push to this remote? (y/n)")) = 1
      /\ AnswersTo("Push to this remote? (y/n)")[1].answer \in Declines )
    => /\ Pushes = <<>>
       /\ sleeps = <<>>
       /\ ReturnedNormally

C4_Witness ==
    /\ origin # Absent
    /\ Len(AnswersTo("Push to this remote? (y/n)")) = 1
    /\ AnswersTo("Push to this remote? (y/n)")[1].answer = <<"n">>
    /\ pc \in {"complete", "returned"}

OnlySpaces(text) == \A i \in DOMAIN text : text[i] = " "

\* C5: when the operator agrees to add a remote and types an empty or
\* whitespace-only URL, git remote add and git push are not invoked, no remote is
\* configured and the function has returned without raising or exiting.
C5_EmptyUrlCancels ==
    ( /\ Len(AnswersTo("Add a remote repository? (y/n)")) = 1
      /\ AnswersTo("Add a remote repository? (y/n)")[1].answer \in Agrees
      /\ Len(AnswersTo("Enter remote repository URL")) = 1
      /\ OnlySpaces(AnswersTo("Enter remote repository URL")[1].answer) )
    => /\ Invoked(GitRemoteAdd) = <<>>
       /\ Pushes = <<>>
       /\ origin = Absent
       /\ Said("No URL provided, skipping remote setup.")
       /\ ReturnedNormally

C5_Witness ==
    /\ Len(AnswersTo("Enter remote repository URL")) = 1
    /\ AnswersTo("Enter remote repository URL")[1].answer = <<" ">>
    /\ Said("No URL provided, skipping remote setup.")

\* C6: when git remote add fails, the failure is reported, git remote add was
\* invoked exactly once, git push is not invoked, nothing slept, no remote is
\* configured and the function has returned without raising or exiting.
C6_RemoteAddFails ==
    (\E i \in DOMAIN cmds : cmds[i].cmd = GitRemoteAdd /\ cmds[i].rc # 0)
    => /\ Len(Invoked(GitRemoteAdd)) = 1
       /\ Pushes = <<>>
       /\ sleeps = <<>>
       /\ origin = Absent
       /\ Said("Failed to add remote")
       /\ ReturnedNormally

C6_Witness ==
    /\ variant = "full"
    /\ Len(Invoked(GitRemoteAdd)) = 1
    /\ Invoked(GitRemoteAdd)[1].rc # 0
    /\ pc = "complete"

\* run or main has called setup_remote_and_push.
PublisherCalled == entry = "run" /\ (pc \in {"pub", "push"} \/ Invoked(GitRemoteGetUrl) # <<>>)

Completed == status = "done" /\ Said(Complete)

\* C7: once run or main has called setup_remote_and_push, the process neither
\* exits nor raises, whatever the publisher's outcome, and the run goes on to print
\* its completion message and end normally.
C7_PublisherNeverAbortsRun ==
    /\ [](PublisherCalled => status \in {"running", "done"})
    /\ [](PublisherCalled => <>Completed)

C7_Witness ==
    /\ entry = "run"
    /\ Len(Pushes) = 4
    /\ \A i \in DOMAIN Pushes : FailedPush(i)
    /\ Completed

\* ------------------------------------------- specification of copy_template
\* The pieces a template text is made of.
Pieces ==
    { <<"{">>, <<"}">>, <<"x">>, Placeholder(PROJECT_NAME),
      <<"{", "P", "R", "O", "J", "E", "C", "T">>, <<"_", "N", "A", "M", "E", "}">> }

RECURSIVE Texts(_)
Texts(n) ==
    IF n = 0 THEN { <<>> }
    ELSE Texts(n - 1) \cup { p \o t : p \in Pieces, t \in Texts(n - 1) }

\* The template texts: up to MaxPieces pieces.
TemplateTexts == Texts(MaxPieces)

\* The keys and the values of a replacement map.
Keys == { PROJECT_NAME, <<"x">> }

Values == { <<>>, <<"x">>, <<"{">>, <<"}">>, Placeholder(PROJECT_NAME) }

RECURSIVE Items(_)
Items(n) ==
    IF n = 0 THEN { <<>> }
    ELSE Items(n - 1)
         \cup UNION { { <<<<k, v>>>> \o m :
                           v \in Values,
                           m \in { i \in Items(n - 1) : \A j \in DOMAIN i : i[j][1] # k } } :
                       k \in Keys }

\* replace_vars: None, or a map of up to MaxVars entries with distinct keys.
ReplaceMaps == { None } \cup { Map(m) : m \in Items(MaxVars) }

\* A ProjectInitializer whose templates directory holds one template, README.md.
InitTemplate ==
    /\ variant = "full"
    /\ entry = "copy_template"
    /\ pc = "copy"
    /\ status = "running"
    /\ nonEmpty = FALSE /\ gitDir = FALSE /\ gitInitialized = FALSE
    /\ language = "python"
    /\ origin = Absent
    /\ \E text \in TemplateTexts :
         templates = [n \in TemplateNames |-> IF n = "README.md" THEN text ELSE Absent]
    /\ files = NoFiles
    /\ hookExec = FALSE
    /\ cmds = <<>> /\ prompts = <<>> /\ sleeps = <<>> /\ msgs = <<>>
    /\ attempt = 0
    /\ call = NoCall
    /\ ops = <<>>
    /\ listing = {} /\ hookRan = FALSE
    /\ NoConstruction /\ NoTui /\ pair = NoPair

\* A call copy_template(template_name, "README.md", replace_vars).
Call_copy_template ==
    /\ entry = "copy_template" /\ pc = "copy"
    /\ \E template_name \in {"README.md", "gitattributes"}, replace_vars \in ReplaceMaps :
         /\ files' = copy_template(template_name, "README.md", replace_vars)
         /\ call' = Called(template_name, "README.md", replace_vars)
         /\ ops' = Append(ops, Op("copy_template", template_name))
         /\ msgs' = Append(msgs, copy_template_msg(template_name))
    /\ pc' = "returned"
    /\ UNCHANGED <<ctx, hookRan, variant, entry, status, nonEmpty, gitDir, gitInitialized, language,
                   origin, templates, hookExec, cmds, prompts, sleeps, attempt>>

NextTemplate == Call_copy_template

SpecTemplate == InitTemplate /\ [][NextTemplate]_vars

\* copy_template has read a template and written the destination.
Copied == pc = "returned" /\ call.content # Absent

Written == files[call.dest]

Token == <<"{", "P", "R", "O", "J", "E", "C", "T", "_", "N", "A", "M", "E", "}">>

\* The call's map is {"PROJECT_NAME": value}.
SuppliesProjectName ==
    /\ call.vars.given
    /\ Len(call.vars.items) = 1
    /\ call.vars.items[1][1] = PROJECT_NAME

SuppliedValue == call.vars.items[1][2]

IsBrace(c) == c = "{" \/ c = "}"

BraceFree(text) == \A i \in DOMAIN text : ~IsBrace(text[i])

\* Braces occur in the text only as placeholders {NAME} that are closed and not
\* nested.
RECURSIVE Balanced(_, _)
Balanced(text, open) ==
    IF text = <<>> THEN ~open
    ELSE IF Head(text) = "{" THEN ~open /\ Balanced(Tail(text), TRUE)
    ELSE IF Head(text) = "}" THEN open /\ Balanced(Tail(text), FALSE)
    ELSE Balanced(Tail(text), open)

WellFormed(text) == Balanced(text, FALSE)

\* No key and no value of the call's map has a brace.
BraceFreeMap ==
    \A i \in DOMAIN call.vars.items :
        BraceFree(call.vars.items[i][1]) /\ BraceFree(call.vars.items[i][2])

\* C8, as claimed: for every template text containing {PROJECT_NAME} and every
\* supplied value, the written output contains the value and no {PROJECT_NAME}.
C8_SubstitutionTotal_Claimed ==
    (Copied /\ SuppliesProjectName /\ Contains(call.content, Token))
    => /\ Contains(Written, SuppliedValue)
       /\ ~Contains(Written, Token)

\* C8, amended: for every template text containing {PROJECT_NAME} and every
\* supplied value the written output contains the value; it contains no
\* {PROJECT_NAME} when the value has no brace and the braces of the template occur
\* only as closed, non-nested {NAME} placeholders.
C8_SubstitutionTotal ==
    (Copied /\ SuppliesProjectName /\ Contains(call.content, Token))
    => /\ Contains(Written, SuppliedValue)
       /\ (WellFormed(call.content) /\ BraceFree(SuppliedValue))
          => ~Contains(Written, Token)

C8_Witness ==
    /\ Copied /\ SuppliesProjectName
    /\ call.content = Token \o <<"x">> \o Token
    /\ SuppliedValue = <<"x">>
    /\ Written = <<"x", "x", "x">>

\* C9, as claimed: for every template text and every replacement map, substituting
\* in the written output with the same map gives the output unchanged.
C9_SubstitutionIdempotent_Claimed ==
    Copied => Rendered(Written, call.vars) = Written

\* C9, amended: substituting in the written output with the same map gives the
\* output unchanged when no key and no value of the map has a brace and the braces
\* of the template occur only as closed, non-nested {NAME} placeholders.
C9_SubstitutionIdempotent ==
    (Copied /\ WellFormed(call.content) /\ BraceFreeMap)
    => Rendered(Written, call.vars) = Written

C9_Witness ==
    /\ Copied
    /\ call.content = Token \o Token
    /\ call.vars = Map(<< <<PROJECT_NAME, <<"x">>>>, <<<<"x">>, <<>>>> >>)
    /\ Written = <<"x", "x">>

\* C10: copy_template called with None or with the empty map writes the template
\* text unchanged, placeholders included.
C10_NoMapCopiesVerbatim ==
    (Copied /\ (~call.vars.given \/ call.vars.items = <<>>))
    => Written = call.content

C10_Witness ==
    /\ Copied
    /\ ~call.vars.given
    /\ Contains(call.content, Token)
    /\ Written = call.content

\* ------------------------------------------------- claims on a whole run
CopyTemplateCalls == SelectSeq(ops, LAMBDA o : o.op = "copy_template")

GitignoreTemplates == { "gitignore.python", "gitignore.generic", "gitignore.go" }

\* The copy_template calls made by create_gitignore.
GitignoreCopies == SelectSeq(CopyTemplateCalls, LAMBDA o : o.arg \in GitignoreTemplates)

\* create_gitignore of ProjectInitializer.run has returned.
CreateGitignoreReturned ==
    /\ variant = "full" /\ entry = "run"
    /\ pc \notin {"start", "init_git", "gitignore"}
    /\ ops # <<>>

FolderPrompt ==
    IF variant = "full" THEN "Folder is not empty. Continue anyway? (y/n)"
    ELSE "Continue? (y/n)"

\* The folder holds a non-hidden entry and the operator has declined to proceed.
DeclinedToProceed ==
    /\ entry = "run" /\ nonEmpty
    /\ Len(AnswersTo(FolderPrompt)) = 1
    /\ AnswersTo(FolderPrompt)[1].answer \in Declines

NothingDone == cmds = <<>> /\ ops = <<>> /\ files = NoFiles /\ ~hookExec

\* C12, as claimed: when the folder is not empty and the operator declines, the
\* process has exited with a non-zero status, no git command was invoked and no
\* file was written.
C12_DeclineExitsNonZero_Claimed ==
    DeclinedToProceed => (status = "exit1" /\ pc = "exited" /\ NothingDone)

\* C12, amended: when the folder is not empty and the operator declines, the
\* process has exited with status 0, no git command was invoked and no file was
\* written.
C12_DeclineExitsEarly ==
    DeclinedToProceed => (status = "exit0" /\ pc = "exited" /\ NothingDone)

C12_Witness ==
    /\ variant = "quick"
    /\ DeclinedToProceed
    /\ AnswersTo(FolderPrompt)[1].answer = <<"N">>
    /\ status = "exit0"
    /\ NothingDone

Last(seq) == seq[Len(seq)]

\* The git-bootstrap commands: both scripts run them with check enabled.
Bootstrap == { GitInit, GitBranch, GitAdd, GitCommit }

\* The last command run is a git-bootstrap command that failed.
BootstrapFailedLast == cmds # <<>> /\ Last(cmds).cmd \in Bootstrap /\ Last(cmds).rc # 0

\* A git-bootstrap command failed at some point.
BootstrapFailed == \E i \in DOMAIN cmds : cmds[i].cmd \in Bootstrap /\ cmds[i].rc # 0

\* The process was ended by the failure of a command: run has exited, or
\* run_command has raised out of the script.
AbortedByCommand ==
    /\ status \in {"exit1", "raised"}
    /\ msgs # <<>> /\ Last(msgs) \in {"Error", "Command failed"}

MissingTemplateMet ==
    /\ entry = "run"
    /\ \/ \E i \in DOMAIN ops : ops[i].op = "copy_template" /\ ~TemplateExists(ops[i].arg)
       \/ variant = "quick" /\ \E i \in DOMAIN ops : ops[i].op = "write_text"

\* C14: in a run, a step whose template is missing is reported and skipped, or
\* writes its built-in text, and the run is not ended by an exception: a run that
\* has raised was ended by a failing command.
C14_MissingTemplateContinues ==
    MissingTemplateMet => (status = "raised" => AbortedByCommand)

\* setup_coderabbit_cli of ProjectInitializer.run has returned.
CoderabbitSetupReturned ==
    /\ variant = "full" /\ entry = "run"
    /\ Invoked(WhichCoderabbit) # <<>>

Count(seq, x) == Len(SelectSeq(seq, LAMBDA e : e = x))

\* C15: once setup_coderabbit_cli has returned, the install instructions were
\* printed exactly once when `which coderabbit` failed and not at all when it
\* succeeded; in both cases copy_template was called once for coderabbit.yaml,
\* .coderabbit.yaml holds the template, and the step has not ended the run.
C15_CoderabbitMissingNotFatal ==
    CoderabbitSetupReturned
    => /\ Count(msgs, "CodeRabbit CLI is not installed")
          = (IF Invoked(WhichCoderabbit)[1].rc # 0 THEN 1 ELSE 0)
       /\ Count(msgs, "CodeRabbit CLI is installed")
          = (IF Invoked(WhichCoderabbit)[1].rc # 0 THEN 0 ELSE 1)
       /\ Count(ops, Op("copy_template", "coderabbit.yaml")) = 1
       /\ files[".coderabbit.yaml"] = templates["coderabbit.yaml"]
       /\ pc \notin {"start", "init_git", "gitignore", "gitattributes", "coderabbit"}
       /\ Last(ops) = Op("copy_template", "coderabbit.yaml")
          => status \in {"running", "done"}

C15_Witness ==
    /\ CoderabbitSetupReturned
    /\ Invoked(WhichCoderabbit)[1].rc = 1
    /\ Said("CodeRabbit CLI is not installed")
    /\ files[".coderabbit.yaml"] = <<"c">>
    /\ pc = "hook" /\ status = "running"

HookPath == ".git/hooks/pre-commit"

\* The calls that touch the hooks directory or the hook.
HookCalls ==
    SelectSeq(ops, LAMBDA o : o.arg \in {".git/hooks", "pre-commit", HookPath})

\* setup_precommit_hook, or the hook step of main, has completed.
HookSetupCompleted ==
    \/ variant = "full" /\ Said("Pre-commit hook created and made executable")
    \/ variant = "quick" /\ Said("Pre-commit hook created from template")

\* C16: once setup_precommit_hook has completed (in main: once the hook was
\* created from its template), .git exists, .git/hooks/pre-commit holds the text of
\* the pre-commit template, its mode is 0o755, and the calls on the hook were, in
\* order, mkdir of the hooks directory, the copy of the template, chmod 0o755.
C16_HookInstalled ==
    HookSetupCompleted
    => /\ gitDir
       /\ TemplateExists("pre-commit")
       /\ files[HookPath] = templates["pre-commit"]
       /\ hookExec
       /\ Len(HookCalls) = 3
       /\ HookCalls[1] = Op("mkdir", ".git/hooks")
       /\ HookCalls[2] = (IF variant = "full" THEN Op("copy_template", "pre-commit")
                          ELSE Op("write_text", HookPath))
       /\ HookCalls[3] = Chmod(HookPath, 493)

C16_Witness ==
    /\ variant = "full"
    /\ HookSetupCompleted
    /\ files[HookPath] = <<"h">>
    /\ hookExec
    /\ pc = "readme"

\* C17: once a call of setup_llm_provider_rules has ended, it has returned, a
\* directory was created and exactly three templates were copied, one each for
\* cursorrules, claude and copilot-instructions.md.
C17_LlmProviderRules ==
    (entry = "setup_llm_provider_rules" /\ pc # "call")
    => /\ status = "running"
       /\ \E i \in DOMAIN ops : ops[i].op = "mkdir"
       /\ Len(CopyTemplateCalls) = 3

\* init_git of ProjectInitializer.run was called.
InitGitCalled ==
    /\ variant = "full" /\ entry = "run"
    /\ pc \notin {"start", "init_git"} /\ status # "exit0"

\* .git existed when init_git was called: it exists and git init never ran.
GitExisted == gitDir /\ Invoked(GitInit) = <<>>

\* C18, as claimed: init_git returns False and runs no git command when .git
\* exists; otherwise it runs git init, then git branch -M main, and returns True.
C18_InitGit_Claimed ==
    InitGitCalled
    => IF GitExisted
       THEN ~gitInitialized /\ Invoked(GitBranch) = <<>>
       ELSE /\ Len(cmds) >= 2
            /\ cmds[1].cmd = GitInit /\ cmds[2].cmd = GitBranch
            /\ gitInitialized

\* C18, amended: init_git returns False and runs no git command when .git exists;
\* otherwise it runs git init and, when that succeeds, git branch -M main, and
\* returns True when both succeed; when one of them fails it raises
\* CalledProcessError, no further command is run and nothing is returned.
C18_InitGit ==
    InitGitCalled
    => IF GitExisted
       THEN /\ ~gitInitialized /\ Invoked(GitBranch) = <<>>
            /\ Said("Git already initialized, skipping...")
       ELSE /\ cmds # <<>> /\ cmds[1].cmd = GitInit
            /\ IF cmds[1].rc # 0
               THEN Len(cmds) = 1 /\ status = "raised" /\ ~gitInitialized
               ELSE /\ Len(cmds) >= 2 /\ cmds[2].cmd = GitBranch
                    /\ IF cmds[2].rc # 0
                       THEN Len(cmds) = 2 /\ status = "raised" /\ ~gitInitialized
                       ELSE gitInitialized /\ gitDir
            /\ Len(Invoked(GitInit)) = 1 /\ Len(Invoked(GitBranch)) <= 1

C18_Witness ==
    /\ InitGitCalled
    /\ cmds = <<Ran(GitInit, 0), Ran(GitBranch, 0)>>
    /\ gitInitialized
    /\ pc = "gitignore"

\* The commands the quick script runs with check=False.
Unchecked ==
    { WhichCoderabbit, GitConfigName, GitConfigEmail, GitRemoteGetUrl, GitRemoteAdd, GitPush }

\* C19: in the quick script, a checked command that exits non-zero is the last one
\* run: the error is printed and the process has exited with status 1; an
\* unchecked command that exits non-zero never ends the process and its return
\* code reaches the caller; a command that exits zero never ends the process; run
\* never raises.
C19_QuickRun ==
    variant = "quick"
    => /\ status # "raised"
       /\ status = "exit1"
          <=> (cmds # <<>> /\ Last(cmds).cmd \in Bootstrap /\ Last(cmds).rc # 0)
       /\ status = "exit1" => Last(msgs) = "Error"
       /\ \A i \in 1..(Len(cmds) - 1) : cmds[i].cmd \in Unchecked \/ cmds[i].rc = 0
       /\ Invoked(WhichCoderabbit) # <<>>
          => (Said("CodeRabbit CLI not installed") <=> Invoked(WhichCoderabbit)[1].rc # 0)
       /\ Said("Remote added successfully")
          => (Invoked(GitRemoteAdd) # <<>> /\ Invoked(GitRemoteAdd)[1].rc = 0)

C19_Witness ==
    /\ variant = "quick"
    /\ Len(cmds) >= 4
    /\ cmds[Len(cmds) - 1] = Ran(GitAdd, 0)
    /\ Last(cmds) = Ran(GitCommit, 1)
    /\ \E i \in DOMAIN cmds : cmds[i] = Ran(WhichCoderabbit, 1)
    /\ status = "exit1"

\* ------------------------------------------- specification of load_template
\* A template file: missing, empty, or holding its text.
LoadDirs ==
    [TemplateNames -> {Absent, <<>>}]
    \cup { [n \in TemplateNames |-> IF n \in missing THEN Absent ELSE TemplateText(n)] :
             missing \in SUBSET TemplateNames }

\* The names load_template is called with: the template files and a name no
\* templates directory holds.
LoadNames == TemplateNames \cup {"gitignore.go"}

\* The quick script before a call of load_template.
InitLoad ==
    /\ variant = "quick"
    /\ entry = "load_template"
    /\ pc = "load"
    /\ status = "running"
    /\ nonEmpty = FALSE /\ gitDir = FALSE /\ gitInitialized = FALSE
    /\ language = "python"
    /\ origin = Absent
    /\ templates \in LoadDirs
    /\ files = NoFiles
    /\ hookExec = FALSE
    /\ cmds = <<>> /\ prompts = <<>> /\ sleeps = <<>> /\ msgs = <<>>
    /\ attempt = 0
    /\ call = NoCall
    /\ ops = <<>>
    /\ listing = {} /\ hookRan = FALSE
    /\ NoConstruction /\ NoTui /\ pair = NoPair

\* A call load_template(template_name, templates_dir); call.content is what it
\* returns.
Call_load_template ==
    /\ entry = "load_template" /\ pc = "load"
    /\ \E template_name \in LoadNames :
         call' = [name |-> template_name, dest |-> "", vars |-> None,
                  content |-> load_template(template_name)]
    /\ pc' = "returned"
    /\ UNCHANGED <<ctx, hookRan, ops, variant, entry, status, nonEmpty, gitDir, gitInitialized, language,
                   origin, templates, files, hookExec, cmds, prompts, sleeps, attempt,
                   msgs>>

NextLoad == Call_load_template

SpecLoad == InitLoad /\ [][NextLoad]_vars

\* The file exists in the templates directory.
InTemplatesDir(name) == name \in TemplateNames /\ templates[name] # Absent

\* C20: load_template has returned without raising or exiting; it returned the
\* whole text of the file, the empty text of an empty file included, when the file
\* exists in the templates directory, and None when it does not; it wrote nothing.
C20_LoadTemplate ==
    (entry = "load_template" /\ pc = "returned")
    => /\ status = "running"
       /\ InTemplatesDir(call.name) => call.content = templates[call.name]
       /\ ~InTemplatesDir(call.name) => call.content = Absent
       /\ files = NoFiles

C20_Witness ==
    /\ entry = "load_template" /\ pc = "returned"
    /\ call.name = "pre-commit"
    /\ templates["pre-commit"] = Absent
    /\ templates["gitattributes"] = <<"a">>
    /\ call.content = Absent

\* ------------------------------------- specification of check_empty_folder
\* Names of entries a project directory may hold.
EntryNames ==
    { DotGit, <<".", "e">>, <<".", ".", "x">>, SomeFile, <<"a", ".", "b">>,
      <<"g", "i", "t">>, <<"s">> }

True == <<"True">>

False == <<"False">>

\* The record of a call that returned value.
Returns(name, value) == [name |-> name, dest |-> "", vars |-> None, content |-> value]

\* A ProjectInitializer on a project directory with any of the entries.
InitFolder ==
    /\ variant = "full"
    /\ entry = "check_empty_folder"
    /\ pc = "check"
    /\ status = "running"
    /\ listing \in SUBSET EntryNames
    /\ nonEmpty = (\E f \in listing : Head(f) # ".")
    /\ gitDir = (DotGit \in listing)
    /\ gitInitialized = FALSE
    /\ language = "python"
    /\ origin = Absent
    /\ templates = [n \in TemplateNames |-> TemplateText(n)]
    /\ files = NoFiles
    /\ hookExec = FALSE
    /\ cmds = <<>> /\ prompts = <<>> /\ sleeps = <<>> /\ msgs = <<>>
    /\ attempt = 0
    /\ call = NoCall
    /\ ops = <<>>
    /\ hookRan = FALSE
    /\ NoConstruction /\ NoTui /\ pair = NoPair

\* A call initializer.check_empty_folder(); call.content is what it returns.
Call_check_empty_folder ==
    /\ entry = "check_empty_folder" /\ pc = "check"
    /\ call' = Returns("check_empty_folder",
                       IF check_empty_folder(listing) THEN True ELSE False)
    /\ pc' = "returned"
    /\ UNCHANGED <<ctx, hookRan, ops, variant, entry, status, nonEmpty, gitDir,
                   gitInitialized, language, origin, templates, files, hookExec, cmds,
                   prompts, sleeps, attempt, msgs>>

NextFolder == Call_check_empty_folder

SpecFolder == InitFolder /\ [][NextFolder]_vars

\* C21: check_empty_folder returns True when every entry of the project directory
\* has a name starting with a dot (no entry at all included) and False when one
\* entry has not; it returns True for a directory holding only .git.
C21_CheckEmptyFolder ==
    (entry = "check_empty_folder" /\ pc = "returned")
    => /\ call.content \in {True, False}
       /\ call.content = True <=> \A f \in listing : Head(f) = "."
       /\ call.content = False <=> nonEmpty
       /\ listing = {DotGit} => call.content = True

C21_Witness ==
    /\ entry = "check_empty_folder" /\ pc = "returned"
    /\ listing = {DotGit, <<".", "e">>}
    /\ call.content = True

\* --------------------------------------------- specification of __init__
\* The texts _create_basic_templates writes.
BasicText(name) ==
    CASE name = "gitignore.python" -> <<"b", "i">>
      [] name = "gitattributes" -> <<"b", "a">>
      [] name = "coderabbit.yaml" -> <<"b", "c">>

\* What a path of the disk may hold before the construction.
DiskEntries ==
    { NoEntry, FileEntry, Dir([n \in TemplateNames |-> Absent]),
      Dir([n \in TemplateNames |-> TemplateText(n)]),
      Dir([n \in TemplateNames |-> IF n = "pre-commit" THEN TemplateText(n) ELSE Absent]) }

\* The templates_dir argument: "" stands for None.
TemplatesDirArguments == {"", "custom/templates"}

\* The directory every caller gets, whatever it passes.
resolve_templates_dir_default(arg, d) ==
    IF Exists(d["script/templates"]) THEN "script/templates" ELSE "cwd/templates"

\* __init__: the directory next to the script, else the one of the current
\* directory, when no argument is given; the argument otherwise.
resolve_templates_dir(arg, d) ==
    IF arg = ""
    THEN IF Exists(d["script/templates"]) THEN "script/templates" ELSE "cwd/templates"
    ELSE arg

\* _create_basic_templates: mkdir(parents=True, exist_ok=True), then three
\* write_text calls in the directory.
create_basic_templates_calls(dir) ==
    << Op("mkdir", dir), Op("write_text", "gitignore.python"),
       Op("write_text", "gitattributes"), Op("write_text", "coderabbit.yaml") >>

\* The directory after _create_basic_templates.
BasicDir == [n \in TemplateNames |-> IF n \in BasicTemplates THEN BasicText(n) ELSE Absent]

\* The files of a templates directory as copy_template sees them.
TemplatesOf(e) == IF e.kind = "dir" THEN e.entries ELSE [n \in TemplateNames |-> Absent]

\* ProjectInitializer(project_path, templates_dir) about to be constructed;
\* call.dest is the templates_dir argument.
InitConstruct ==
    /\ variant = "full"
    /\ entry = "__init__"
    /\ pc = "init"
    /\ status = "running"
    /\ disk \in [TemplatePaths -> DiskEntries]
    /\ templates_dir = ""
    /\ \E arg \in TemplatesDirArguments :
          call = [name |-> "__init__", dest |-> arg, vars |-> None, content |-> Absent]
    /\ nonEmpty = FALSE
    /\ gitDir = FALSE
    /\ listing = {}
    /\ gitInitialized = FALSE
    /\ language = "python"
    /\ origin = Absent
    /\ templates = [n \in TemplateNames |-> Absent]
    /\ files = NoFiles
    /\ hookExec = FALSE
    /\ cmds = <<>> /\ prompts = <<>> /\ sleeps = <<>> /\ msgs = <<>>
    /\ attempt = 0
    /\ ops = <<>>
    /\ hookRan = FALSE
    /\ NoTui /\ pair = NoPair

\* __init__ with _create_basic_templates.
Construct ==
    /\ entry = "__init__" /\ pc = "init"
    /\ LET dir == resolve_templates_dir(call.dest, disk)
       IN  /\ templates_dir' = dir
           /\ IF ~Exists(disk[dir])
              THEN /\ msgs' = msgs \o <<"Templates directory not found">>
                   /\ ops' = ops \o create_basic_templates_calls(dir)
                   /\ disk' = [disk EXCEPT ![dir] = Dir(BasicDir)]
              ELSE UNCHANGED <<msgs, ops, disk>>
           /\ templates' = TemplatesOf(disk'[dir])
    /\ pc' = "constructed"
    /\ UNCHANGED <<listing, options, checks, pair, hookRan, variant, entry, status,
                   nonEmpty, gitDir, gitInitialized, language, origin, files, hookExec,
                   cmds, prompts, sleeps, attempt, call>>

NextConstruct == Construct

SpecConstruct == InitConstruct /\ [][NextConstruct]_vars

\* C22: constructing a ProjectInitializer uses an explicitly passed templates
\* directory as given and otherwise the script's templates directory, or the
\* current directory's when the script's does not exist; when the resolved path
\* does not exist the constructor creates the directory there and writes the
\* three basic templates, touching no other path; when it exists nothing is
\* created or written.
C22_Constructor ==
    [][ (entry = "__init__" /\ pc = "init")
        => /\ call.dest # "" => templates_dir' = call.dest
           /\ call.dest = ""
              => templates_dir' = IF Exists(disk["script/templates"])
                                  THEN "script/templates" ELSE "cwd/templates"
           /\ ~Exists(disk[templates_dir'])
              => /\ disk'[templates_dir'].kind = "dir"
                 /\ \A n \in TemplateNames :
                       disk'[templates_dir'].entries[n] =
                          IF n \in BasicTemplates THEN BasicText(n) ELSE Absent
                 /\ ops' = << Op("mkdir", templates_dir'),
                              Op("write_text", "gitignore.python"),
                              Op("write_text", "gitattributes"),
                              Op("write_text", "coderabbit.yaml") >>
                 /\ \A p \in TemplatePaths \ {templates_dir'} : disk'[p] = disk[p]
           /\ Exists(disk[templates_dir']) => disk' = disk /\ ops' = <<>> ]_vars

\* A constructor given a directory that did not exist and created it.
C22_Witness ==
    /\ entry = "__init__" /\ pc = "constructed"
    /\ call.dest = "custom/templates"
    /\ templates_dir = "custom/templates"
    /\ ops # <<>>
    /\ disk["custom/templates"] = Dir(BasicDir)
    /\ Exists(disk["script/templates"])

\* The positions of cmds holding the command cmd with return code rc.
Positions(cmd, rc) == { i \in DOMAIN cmds : cmds[i] = Ran(cmd, rc) }

\* The commands that publish: adding the remote and pushing.
PublishCommands == {GitRemoteAdd, GitPush}

\* A configuration query of this run found the value missing.
UserUnconfigured ==
    \E i \in DOMAIN cmds : cmds[i].cmd \in {GitConfigName, GitConfigEmail} /\ cmds[i].rc # 0

\* C23: in a run of full_init_project.run or quick_init_project.main, git remote
\* add and git push are invoked only after git add and then git commit have
\* succeeded in that run, and when user.name or user.email is not configured
\* none of add, commit, remote add and push is invoked.
C23_PublishAfterCommit ==
    entry = "run"
    => /\ \A i \in DOMAIN cmds :
             cmds[i].cmd \in PublishCommands
             => \E j \in Positions(GitAdd, 0), k \in Positions(GitCommit, 0) : j < k /\ k < i
       /\ UserUnconfigured
          => \A i \in DOMAIN cmds :
                cmds[i].cmd \notin {GitAdd, GitCommit} \cup PublishCommands

\* A run that pushed after its commit, and one that skipped the commit.
C23_Witness ==
    /\ entry = "run" /\ variant = "quick"
    /\ Positions(GitPush, 0) # {}
    /\ Positions(GitRemoteAdd, 0) # {}

C23_WitnessUnconfigured ==
    /\ entry = "run" /\ status = "done"
    /\ UserUnconfigured
    /\ gitInitialized

\* ------------------------------------------------------- quick_init_v2.main
\* The built-in hook text of quick_init_v2.main.
V2MinimalHook == <<"m", "h", "2">>

GitCommitVerified == "git commit -m"

\* A commit command line that bypasses the hooks.
v2_commit_args_bypass == <<"git", "commit", "--no-verify", "-m", "Initial commit">>

\* quick_init_v2.main: the command line of the initial commit.
v2_commit_args == <<"git", "commit", "-m", "Initial commit">>

\* quick_init_v2.main: the check of the folder and the prompt to continue.
V2_check_empty ==
    /\ variant = "v2" /\ status = "running" /\ pc = "start"
    /\ \E answer \in Answers :
         IF NonHidden(listing) # {}
         THEN /\ prompts' = Append(prompts, Asked("Continue? (y/n)", answer))
              /\ IF ~Confirmed(answer)
                 THEN /\ msgs' = Append(msgs, "Folder not empty!")
                      /\ status' = Exited(quick_decline_exit)
                      /\ pc' = "exited"
                 ELSE /\ msgs' = Append(msgs, "Folder not empty!")
                      /\ status' = status
                      /\ pc' = "init_git"
         ELSE /\ pc' = "init_git"
              /\ UNCHANGED <<prompts, msgs, status>>
    /\ UNCHANGED <<ctx, hookRan, ops, variant, entry, nonEmpty, gitDir, gitInitialized, language, origin,
                   templates, files, hookExec, cmds, sleeps, attempt, call>>

\* quick_init_v2.main: git init and the branch rename, when .git does not exist.
V2_git_init ==
    /\ variant = "v2" /\ status = "running" /\ pc = "init_git"
    /\ \E rcInit \in ReturnCodes, rcBranch \in ReturnCodes :
         IF gitDir
         THEN /\ pc' = "gitignore"
              /\ UNCHANGED <<cmds, msgs, gitDir, status>>
         ELSE IF run(rcInit, TRUE) = "exit1"
         THEN /\ cmds' = Append(cmds, Ran(GitInit, rcInit))
              /\ msgs' = Append(msgs, "Error")
              /\ status' = "exit1"
              /\ pc' = "exited"
              /\ UNCHANGED gitDir
         ELSE IF run(rcBranch, TRUE) = "exit1"
         THEN /\ cmds' = cmds \o <<Ran(GitInit, rcInit), Ran(GitBranch, rcBranch)>>
              /\ gitDir' = TRUE
              /\ msgs' = Append(msgs, "Error")
              /\ status' = "exit1"
              /\ pc' = "exited"
         ELSE /\ cmds' = cmds \o <<Ran(GitInit, rcInit), Ran(GitBranch, rcBranch)>>
              /\ gitDir' = TRUE
              /\ msgs' = Append(msgs, "Git initialized")
              /\ pc' = "gitignore"
              /\ UNCHANGED status
    /\ UNCHANGED <<ctx, hookRan, ops, variant, entry, nonEmpty, gitInitialized, language, origin, templates,
                   files, hookExec, prompts, sleeps, attempt, call>>

\* quick_init_v2.main: .gitignore from the template, or the minimal version.
V2_gitignore ==
    /\ variant = "v2" /\ status = "running" /\ pc = "gitignore"
    /\ LET gitignore_content == load_template("gitignore.python")
       IN  IF Truthy(gitignore_content)
           THEN /\ files' = [files EXCEPT ![".gitignore"] = gitignore_content]
                /\ msgs' = Append(msgs, ".gitignore created from template")
           ELSE /\ files' = [files EXCEPT ![".gitignore"] = MinimalGitignore]
                /\ msgs' = Append(msgs, ".gitignore created (minimal)")
    /\ ops' = Append(ops, Op("write_text", ".gitignore"))
    /\ pc' = "gitattributes"
    /\ UNCHANGED <<ctx, hookRan, variant, entry, status, nonEmpty, gitDir, gitInitialized, language,
                   origin, templates, hookExec, cmds, prompts, sleeps, attempt, call>>

\* quick_init_v2.main: .gitattributes from the template, or the minimal version.
V2_gitattributes ==
    /\ variant = "v2" /\ status = "running" /\ pc = "gitattributes"
    /\ LET gitattributes_content == load_template("gitattributes")
       IN  IF Truthy(gitattributes_content)
           THEN /\ files' = [files EXCEPT ![".gitattributes"] = gitattributes_content]
                /\ msgs' = Append(msgs, ".gitattributes created from template")
           ELSE /\ files' = [files EXCEPT ![".gitattributes"] = MinimalGitattributes]
                /\ msgs' = Append(msgs, ".gitattributes created (minimal)")
    /\ ops' = Append(ops, Op("write_text", ".gitattributes"))
    /\ pc' = "coderabbit"
    /\ UNCHANGED <<ctx, hookRan, variant, entry, status, nonEmpty, gitDir, gitInitialized, language,
                   origin, templates, hookExec, cmds, prompts, sleeps, attempt, call>>

\* quick_init_v2.main: .coderabbit.yaml from the template, or the minimal version, and the check
\* that the review CLI is installed.
V2_coderabbit ==
    /\ variant = "v2" /\ status = "running" /\ pc = "coderabbit"
    /\ \E rc \in ReturnCodes :
         LET coderabbit_content == load_template("coderabbit.yaml")
             coderabbit_installed == run(rc, FALSE) = "returned" /\ rc = 0
         IN  /\ cmds' = Append(cmds, Ran(WhichCoderabbit, rc))
             /\ IF Truthy(coderabbit_content)
                THEN files' = [files EXCEPT ![".coderabbit.yaml"] = coderabbit_content]
                ELSE files' = [files EXCEPT ![".coderabbit.yaml"] = MinimalCoderabbit]
             /\ msgs' = msgs
                        \o <<IF Truthy(coderabbit_content)
                             THEN "CodeRabbit config created from template"
                             ELSE "CodeRabbit config created (minimal)">>
                        \o <<IF coderabbit_installed THEN "CodeRabbit CLI is installed"
                             ELSE "CodeRabbit CLI not installed">>
    /\ ops' = Append(ops, Op("write_text", ".coderabbit.yaml"))
    /\ pc' = "hook"
    /\ UNCHANGED <<ctx, hookRan, variant, entry, status, nonEmpty, gitDir, gitInitialized, language,
                   origin, templates, hookExec, prompts, sleeps, attempt, call>>

\* quick_init_v2.main: the pre-commit hook from the template, or the minimal version, made
\* executable.
V2_precommit_hook ==
    /\ variant = "v2" /\ status = "running" /\ pc = "hook"
    /\ LET hook_content == load_template("pre-commit")
       IN  IF Truthy(hook_content)
           THEN /\ files' = [files EXCEPT ![".git/hooks/pre-commit"] = hook_content]
                /\ msgs' = Append(msgs, "Pre-commit hook created from template")
           ELSE /\ files' = [files EXCEPT ![".git/hooks/pre-commit"] = V2MinimalHook]
                /\ msgs' = Append(msgs, "Pre-commit hook created (minimal)")
    /\ ops' = ops \o quick_precommit_hook_calls
    /\ hookExec' = (quick_hook_mode = 493)
    /\ pc' = "commit"
    /\ UNCHANGED <<ctx, hookRan, variant, entry, status, nonEmpty, gitDir, gitInitialized, language,
                   origin, templates, cmds, prompts, sleeps, attempt, call>>

\* quick_init_v2.main: the initial commit; the hook is not bypassed.
V2_initial_commit ==
    /\ variant = "v2" /\ status = "running" /\ pc = "commit"
    /\ \E rcName \in ReturnCodes, rcEmail \in ReturnCodes,
          rcAdd \in ReturnCodes, rcCommit \in ReturnCodes :
         LET config == <<Ran(GitConfigName, rcName), Ran(GitConfigEmail, rcEmail)>>
         IN  /\ hookRan' = (hookRan \/ (/\ rcName = 0 /\ rcEmail = 0 /\ rcAdd = 0
                                        /\ HookRuns(v2_commit_args)))
             /\ IF ~(run(rcName, FALSE) = "returned" /\ rcName = 0
                     /\ run(rcEmail, FALSE) = "returned" /\ rcEmail = 0)
                THEN /\ cmds' = cmds \o config
                     /\ msgs' = Append(msgs, "Git user not configured - skipping initial commit")
                     /\ pc' = "complete"
                     /\ UNCHANGED status
                ELSE IF run(rcAdd, TRUE) = "exit1"
                THEN /\ cmds' = cmds \o config \o <<Ran(GitAdd, rcAdd)>>
                     /\ msgs' = Append(msgs, "Error")
                     /\ status' = "exit1"
                     /\ pc' = "exited"
                ELSE IF run(rcCommit, TRUE) = "exit1"
                THEN /\ cmds' = cmds \o config \o <<Ran(GitAdd, rcAdd), Ran(GitCommitVerified, rcCommit)>>
                     /\ msgs' = Append(msgs, "Error")
                     /\ status' = "exit1"
                     /\ pc' = "exited"
                ELSE /\ cmds' = cmds \o config \o <<Ran(GitAdd, rcAdd), Ran(GitCommitVerified, rcCommit)>>
                     /\ msgs' = Append(msgs, "Initial commit done")
                     /\ pc' = "complete"
                     /\ UNCHANGED status
    /\ UNCHANGED <<ctx, ops, variant, entry, nonEmpty, gitDir, gitInitialized, language, origin,
                   templates, files, hookExec, prompts, sleeps, attempt, call>>

\* quick_init_v2.main: the completion message and the workflow explanation.
V2_main_done ==
    /\ variant = "v2" /\ status = "running" /\ pc = "complete"
    /\ msgs' = msgs \o <<"Done!", "How It Works">>
    /\ status' = "done"
    /\ pc' = "done"
    /\ UNCHANGED <<ctx, hookRan, ops, variant, entry, nonEmpty, gitDir, gitInitialized, language, origin,
                   templates, files, hookExec, cmds, prompts, sleeps, attempt, call>>

\* ------------------------------------------------ ProjectInitializerTUI.run
\* The state no step of the TUI changes.
tuiFrame ==
    <<listing, disk, templates_dir, pair, variant, entry, nonEmpty, origin, templates,
      prompts, sleeps, attempt>>

\* A commit command line of the TUI that bypasses the hooks.
tui_commit_args_bypass ==
    <<"git", "commit", "--no-verify", "-m",
      "Initial commit: Project setup with CodeRabbit CLI">>

\* create_initial_commit: the command line of the commit.
tui_commit_args ==
    <<"git", "commit", "-m", "Initial commit: Project setup with CodeRabbit CLI">>

\* The README text create_readme builds for the project.
TuiReadme == <<"#", " ">> \o ProjectPathName

\* A run that initializes git whatever the options are.
tui_needs_git_always(opts) == TRUE

\* run: the condition under which setup_git is called.
tui_needs_git(opts) == opts["setup_precommit"] \/ opts["create_initial_commit"]

\* The except clause of run: the failure is printed and raised again.
TuiFailed == "Setup failed"

\* check_prerequisites: the tools, the folder and `git config user.name`, which
\* is configured when the command succeeds and prints a non-blank name.
Tui_check_prerequisites ==
    /\ variant = "tui" /\ status = "running" /\ pc = "start"
    /\ \E coderabbit_available \in BOOLEAN, rc \in ReturnCodes, blank \in BOOLEAN :
         /\ cmds' = Append(cmds, Ran(GitConfigName, rc))
         /\ checks' = [coderabbit |-> coderabbit_available,
                       folder_empty |-> (Cardinality(NonHidden(listing)) = 0),
                       git_configured |-> (rc = 0 /\ ~blank)]
    /\ pc' = "info"
    /\ UNCHANGED <<tuiFrame, status, gitDir, gitInitialized, language, files, hookExec,
                   msgs, call, ops, hookRan, options>>

\* get_project_info: the language the operator picks.
Tui_get_project_info ==
    /\ variant = "tui" /\ status = "running" /\ pc = "info"
    /\ \E lang \in {"python", "go"} : language' = lang
    /\ pc' = "options"
    /\ UNCHANGED <<tuiFrame, status, gitDir, gitInitialized, files, hookExec, cmds,
                   msgs, call, ops, hookRan, options, checks>>

\* get_setup_options: one Confirm.ask per option.
Tui_get_setup_options ==
    /\ variant = "tui" /\ status = "running" /\ pc = "options"
    /\ options' \in [OptionNames -> BOOLEAN]
    /\ pc' = "summary"
    /\ UNCHANGED <<tuiFrame, status, gitDir, gitInitialized, language, files, hookExec,
                   cmds, msgs, call, ops, hookRan, checks>>

\* run: show_summary; the run ends when the operator rejects the summary.
Tui_show_summary ==
    /\ variant = "tui" /\ status = "running" /\ pc = "summary"
    /\ \E proceed \in BOOLEAN :
         IF ~proceed
         THEN /\ msgs' = Append(msgs, "Setup cancelled.")
              /\ status' = "done"
              /\ pc' = "done"
         ELSE /\ msgs' = Append(msgs, "Starting Setup...")
              /\ pc' = "init_git"
              /\ UNCHANGED status
    /\ UNCHANGED <<tuiFrame, gitDir, gitInitialized, language, files, hookExec, cmds,
                   call, ops, hookRan, options, checks>>

\* run: setup_git when the hook or the initial commit is wanted.
Tui_setup_git ==
    /\ variant = "tui" /\ status = "running" /\ pc = "init_git"
    /\ \E rcInit \in ReturnCodes, rcBranch \in ReturnCodes :
         IF ~tui_needs_git(options) \/ gitDir
         THEN /\ gitInitialized' = FALSE
              /\ pc' = "gitignore"
              /\ UNCHANGED <<cmds, msgs, gitDir, status>>
         ELSE IF run_command(rcInit, TRUE) = "CalledProcessError"
         THEN /\ cmds' = Append(cmds, Ran(GitInit, rcInit))
              /\ msgs' = msgs \o <<"Command failed", TuiFailed>>
              /\ status' = "raised"
              /\ pc' = "aborted"
              /\ UNCHANGED <<gitDir, gitInitialized>>
         ELSE IF run_command(rcBranch, TRUE) = "CalledProcessError"
         THEN /\ cmds' = cmds \o <<Ran(GitInit, rcInit), Ran(GitBranch, rcBranch)>>
              /\ gitDir' = TRUE
              /\ msgs' = msgs \o <<"Command failed", TuiFailed>>
              /\ status' = "raised"
              /\ pc' = "aborted"
              /\ UNCHANGED gitInitialized
         ELSE /\ cmds' = cmds \o <<Ran(GitInit, rcInit), Ran(GitBranch, rcBranch)>>
              /\ gitDir' = TRUE
              /\ gitInitialized' = TRUE
              /\ msgs' = Append(msgs, "Git repository initialized")
              /\ pc' = "gitignore"
              /\ UNCHANGED status
    /\ UNCHANGED <<tuiFrame, language, files, hookExec, call, ops, hookRan, options,
                   checks>>

\* run: create_gitignore(language), with the fallback to the generic template.
Tui_create_gitignore ==
    /\ variant = "tui" /\ status = "running" /\ pc = "gitignore"
    /\ LET template_name == IF ~TemplateExists(GitignoreTemplate(language))
                            THEN "gitignore.generic"
                            ELSE GitignoreTemplate(language)
       IN  /\ files' = copy_template(template_name, ".gitignore", None)
           /\ call' = Called(template_name, ".gitignore", None)
           /\ ops' = Append(ops, Op("copy_template", template_name))
           /\ msgs' = msgs \o <<copy_template_msg(template_name), ".gitignore created">>
    /\ pc' = "gitattributes"
    /\ UNCHANGED <<tuiFrame, status, gitDir, gitInitialized, language, hookExec, cmds,
                   hookRan, options, checks>>

\* run: create_git_attributes()
Tui_create_git_attributes ==
    /\ variant = "tui" /\ status = "running" /\ pc = "gitattributes"
    /\ files' = copy_template("gitattributes", ".gitattributes", None)
    /\ call' = Called("gitattributes", ".gitattributes", None)
    /\ ops' = Append(ops, Op("copy_template", "gitattributes"))
    /\ msgs' = msgs \o <<copy_template_msg("gitattributes"), ".gitattributes created">>
    /\ pc' = "docker"
    /\ UNCHANGED <<tuiFrame, status, gitDir, gitInitialized, language, hookExec, cmds,
                   hookRan, options, checks>>

\* run: create_dockerignore() when Docker support is wanted; the templates
\* directories of the model hold no dockerignore template.
Tui_create_dockerignore ==
    /\ variant = "tui" /\ status = "running" /\ pc = "docker"
    /\ IF options["setup_docker"]
       THEN /\ files' = copy_template("dockerignore", ".dockerignore", None)
            /\ call' = Called("dockerignore", ".dockerignore", None)
            /\ ops' = Append(ops, Op("copy_template", "dockerignore"))
            /\ msgs' = msgs \o <<copy_template_msg("dockerignore"), ".dockerignore created">>
       ELSE UNCHANGED <<files, call, ops, msgs>>
    /\ pc' = "coderabbit"
    /\ UNCHANGED <<tuiFrame, status, gitDir, gitInitialized, language, hookExec, cmds,
                   hookRan, options, checks>>

\* run: setup_coderabbit_cli() when the review configuration is wanted.
Tui_setup_coderabbit_cli ==
    /\ variant = "tui" /\ status = "running" /\ pc = "coderabbit"
    /\ IF options["setup_coderabbit"]
       THEN /\ files' = copy_template("coderabbit.yaml", ".coderabbit.yaml", None)
            /\ call' = Called("coderabbit.yaml", ".coderabbit.yaml", None)
            /\ ops' = Append(ops, Op("copy_template", "coderabbit.yaml"))
            /\ msgs' = msgs \o <<copy_template_msg("coderabbit.yaml"),
                                 "CodeRabbit configuration created">>
       ELSE UNCHANGED <<files, call, ops, msgs>>
    /\ pc' = "hook"
    /\ UNCHANGED <<tuiFrame, status, gitDir, gitInitialized, language, hookExec, cmds,
                   hookRan, options, checks>>

\* run: setup_precommit_hook() when the hook is wanted and this run initialized
\* git; chmod raises FileNotFoundError when the template was not copied.
Tui_setup_precommit_hook ==
    /\ variant = "tui" /\ status = "running" /\ pc = "hook"
    /\ IF options["setup_precommit"] /\ gitInitialized
       THEN /\ files' = copy_template("pre-commit", ".git/hooks/pre-commit", None)
            /\ call' = Called("pre-commit", ".git/hooks/pre-commit", None)
            /\ ops' = ops \o << Op("mkdir", ".git/hooks"), Op("copy_template", "pre-commit"),
                                Chmod(".git/hooks/pre-commit", 493) >>
            /\ IF files'[".git/hooks/pre-commit"] = Absent
               THEN /\ msgs' = msgs \o <<copy_template_msg("pre-commit"), TuiFailed>>
                    /\ status' = "raised"
                    /\ pc' = "aborted"
                    /\ UNCHANGED hookExec
               ELSE /\ msgs' = msgs \o <<copy_template_msg("pre-commit"),
                                         "Pre-commit hook created">>
                    /\ hookExec' = TRUE
                    /\ pc' = "readme"
                    /\ UNCHANGED status
       ELSE /\ pc' = "readme"
            /\ UNCHANGED <<files, call, ops, msgs, status, hookExec>>
    /\ UNCHANGED <<tuiFrame, gitDir, gitInitialized, language, cmds, hookRan, options,
                   checks>>

\* run: create_readme(project_info) when the README is wanted.
Tui_create_readme ==
    /\ variant = "tui" /\ status = "running" /\ pc = "readme"
    /\ IF options["create_readme"]
       THEN /\ files' = [files EXCEPT !["README.md"] = TuiReadme]
            /\ ops' = Append(ops, Op("write_text", "README.md"))
            /\ msgs' = Append(msgs, "README.md created")
       ELSE UNCHANGED <<files, ops, msgs>>
    /\ pc' = "commit"
    /\ UNCHANGED <<tuiFrame, status, gitDir, gitInitialized, language, hookExec, cmds,
                   call, hookRan, options, checks>>

\* run: create_initial_commit() when the commit is wanted, this run initialized
\* git and user.name was found configured; the hook is not bypassed.
Tui_create_initial_commit ==
    /\ variant = "tui" /\ status = "running" /\ pc = "commit"
    /\ \E rcAdd \in ReturnCodes, rcCommit \in ReturnCodes :
         LET wanted == options["create_initial_commit"]
             commits == wanted /\ gitInitialized /\ checks["git_configured"]
         IN  /\ hookRan' = (hookRan \/ (commits /\ rcAdd = 0 /\ HookRuns(tui_commit_args)))
             /\ IF commits
                THEN IF run_command(rcAdd, TRUE) = "CalledProcessError"
                     THEN /\ cmds' = Append(cmds, Ran(GitAdd, rcAdd))
                          /\ msgs' = msgs \o <<"Command failed", TuiFailed>>
                          /\ status' = "raised"
                          /\ pc' = "aborted"
                     ELSE IF run_command(rcCommit, TRUE) = "CalledProcessError"
                     THEN /\ cmds' = cmds \o <<Ran(GitAdd, rcAdd),
                                               Ran(GitCommitVerified, rcCommit)>>
                          /\ msgs' = msgs \o <<"Command failed", TuiFailed>>
                          /\ status' = "raised"
                          /\ pc' = "aborted"
                     ELSE /\ cmds' = cmds \o <<Ran(GitAdd, rcAdd),
                                               Ran(GitCommitVerified, rcCommit)>>
                          /\ msgs' = Append(msgs, "Initial commit created")
                          /\ pc' = "complete"
                          /\ UNCHANGED status
                ELSE /\ msgs' = IF wanted /\ ~checks["git_configured"]
                                THEN Append(msgs, "Skipping initial commit (Git not configured)")
                                ELSE msgs
                     /\ pc' = "complete"
                     /\ UNCHANGED <<cmds, status>>
    /\ UNCHANGED <<tuiFrame, gitDir, gitInitialized, language, files, hookExec, call,
                   ops, options, checks>>

\* run: the completion panel, the workflow explanation and the next steps.
Tui_run_complete ==
    /\ variant = "tui" /\ status = "running" /\ pc = "complete"
    /\ msgs' = msgs \o <<Complete>>
                    \o (IF options["explain_workflow"] THEN <<"How It Works">> ELSE <<>>)
    /\ status' = "done"
    /\ pc' = "done"
    /\ UNCHANGED <<tuiFrame, gitDir, gitInitialized, language, files, hookExec, cmds,
                   call, ops, hookRan, options, checks>>

\* ------------------------------------- specification of the four front ends
\* The templates the quick scripts load.
QuickTemplates == {"gitignore.python", "gitattributes", "coderabbit.yaml", "pre-commit"}

\* Templates directories in which some template file exists and is empty.
EmptyTemplateDirs ==
    { [n \in TemplateNames |-> IF n \in empty THEN <<>> ELSE TemplateText(n)] :
        empty \in {{n} : n \in QuickTemplates} \cup {QuickTemplates} }

\* The hook of a repository that existed before the run.
ExistingHook == <<"o">>

\* Nothing has run yet.
Fresh ==
    /\ entry = "run"
    /\ pc = "start"
    /\ status = "running"
    /\ gitInitialized = FALSE
    /\ cmds = <<>> /\ prompts = <<>> /\ sleeps = <<>> /\ msgs = <<>>
    /\ attempt = 0
    /\ call = NoCall
    /\ ops = <<>>
    /\ hookRan = FALSE
    /\ NoConstruction /\ NoTui /\ pair = NoPair
    /\ listing = Listing(gitDir, nonEmpty)

\* Runs of run in a repository that has a pre-commit hook already, and runs of
\* quick_init_project.main with empty template files.
InitWide ==
    /\ variant \in {"full", "quick"}
    /\ nonEmpty \in BOOLEAN
    /\ IF variant = "full"
       THEN /\ gitDir = TRUE
            /\ files = [NoFiles EXCEPT ![".git/hooks/pre-commit"] = ExistingHook]
            /\ hookExec \in BOOLEAN
            /\ language \in {"python", "go"}
            /\ templates \in TemplateDirs
            /\ origin \in {Absent, <<"u">>}
       ELSE /\ gitDir \in BOOLEAN
            /\ files = NoFiles
            /\ hookExec = FALSE
            /\ language = "python"
            /\ templates \in EmptyTemplateDirs
            /\ origin = Absent
    /\ Fresh

\* Runs of quick_init_v2.main.
InitV2 ==
    /\ variant = "v2"
    /\ nonEmpty \in BOOLEAN
    /\ gitDir \in BOOLEAN
    /\ files = NoFiles
    /\ hookExec = FALSE
    /\ language = "python"
    /\ templates \in TemplateDirs \cup EmptyTemplateDirs
    /\ origin = Absent
    /\ Fresh

\* Runs of ProjectInitializerTUI.run.
InitTui ==
    /\ variant = "tui"
    /\ nonEmpty \in BOOLEAN
    /\ gitDir \in BOOLEAN
    /\ files = NoFiles
    /\ hookExec = FALSE
    /\ language = "python"
    /\ templates \in { [n \in TemplateNames |-> TemplateText(n)],
                       [n \in TemplateNames |-> IF n = "pre-commit" THEN Absent
                                                ELSE TemplateText(n)] }
    /\ origin = Absent
    /\ Fresh

InitAll == Init \/ InitWide \/ InitV2 \/ InitTui

NextV2 ==
    \/ V2_check_empty
    \/ V2_git_init
    \/ V2_gitignore
    \/ V2_gitattributes
    \/ V2_coderabbit
    \/ V2_precommit_hook
    \/ V2_initial_commit
    \/ V2_main_done

NextTui ==
    \/ Tui_check_prerequisites
    \/ Tui_get_project_info
    \/ Tui_get_setup_options
    \/ Tui_show_summary
    \/ Tui_setup_git
    \/ Tui_create_gitignore
    \/ Tui_create_git_attributes
    \/ Tui_create_dockerignore
    \/ Tui_setup_coderabbit_cli
    \/ Tui_setup_precommit_hook
    \/ Tui_create_readme
    \/ Tui_create_initial_commit
    \/ Tui_run_complete

NextAll == Next \/ NextV2 \/ NextTui

SpecAll == InitAll /\ [][NextAll]_vars

\* The initial commit was invoked: git add succeeded and git commit was run.
CommitInvoked ==
    \E i \in DOMAIN cmds : cmds[i].cmd \in {GitCommit, GitCommitVerified}

HookInstalled == files[".git/hooks/pre-commit"] # Absent /\ hookExec

\* C24: full_init_project.run and quick_init_project.main run the initial commit
\* with --no-verify only, so the pre-commit hook never runs during the
\* initialization; quick_init_v2.main and the TUI run it without --no-verify, so
\* the hook they installed runs whenever they invoke the initial commit.
C24_HookBypass ==
    entry = "run"
    => /\ variant \in {"full", "quick"}
          => /\ ~hookRan
             /\ \A i \in DOMAIN cmds : cmds[i].cmd # GitCommitVerified
       /\ variant \in {"v2", "tui"}
          => /\ \A i \in DOMAIN cmds : cmds[i].cmd # GitCommit
             /\ CommitInvoked /\ HookInstalled => hookRan
       /\ variant = "v2" /\ CommitInvoked => HookInstalled /\ hookRan

\* Commits of all four front ends with the hook installed.
C24_Witness ==
    /\ variant = "tui" /\ status = "done"
    /\ CommitInvoked /\ HookInstalled /\ hookRan

C24_WitnessV2 ==
    /\ variant = "v2" /\ status = "done" /\ CommitInvoked /\ hookRan

C24_WitnessFull ==
    /\ variant = "full" /\ entry = "run" /\ status = "done"
    /\ CommitInvoked /\ HookInstalled /\ ~hookRan

C24_WitnessQuick ==
    /\ variant = "quick" /\ entry = "run" /\ status = "done"
    /\ CommitInvoked /\ HookInstalled /\ ~hookRan

\* A run of full_init_project.run in a project path that held .git at its start.
ExistingGitRun == variant = "full" /\ entry = "run" /\ DotGit \in listing

\* The copy_template calls made for template name.
CopiesOf(name) == SelectSeq(CopyTemplateCalls, LAMBDA o : o.arg = name)

\* destination holds what copy_template leaves there for template name.
WrittenFrom(name, destination, replace_vars) ==
    files[destination] = IF TemplateExists(name)
                         THEN Rendered(templates[name], replace_vars)
                         ELSE Absent

\* C25: in full_init_project.run, when .git exists in the project path, no call
\* touches the hooks directory, .git/hooks/pre-commit and its mode stay as they
\* were, and no git add, commit, remote or push command is invoked, while the
\* run still copies the ignore, attributes and review-config templates, and the
\* README template when a README is asked for, each to its file.
C25_ExistingGit ==
    /\ [](ExistingGitRun
          => /\ HookCalls = <<>>
             /\ ~gitInitialized
             /\ \A i \in DOMAIN cmds : cmds[i].cmd = WhichCoderabbit
             /\ status = "done"
                => /\ Len(GitignoreCopies) = 1
                   /\ WrittenFrom(GitignoreCopies[1].arg, ".gitignore", None)
                   /\ Len(CopiesOf("gitattributes")) = 1
                   /\ WrittenFrom("gitattributes", ".gitattributes", None)
                   /\ Len(CopiesOf("coderabbit.yaml")) = 1
                   /\ WrittenFrom("coderabbit.yaml", ".coderabbit.yaml", None)
                   /\ CopiesOf("README.md") # <<>>
                      => WrittenFrom("README.md", "README.md",
                                     Map(<< <<PROJECT_NAME, ProjectPathName>> >>)))
    /\ [][ExistingGitRun
          => /\ files'[HookPath] = files[HookPath]
             /\ hookExec' = hookExec]_vars

\* A completed run in a repository with a hook of its own: the hook is as it was
\* and the four files are written.
C25_Witness ==
    /\ ExistingGitRun /\ status = "done"
    /\ files[HookPath] = ExistingHook /\ hookExec
    /\ files[".gitignore"] = TemplateText("gitignore.python")
    /\ files[".gitattributes"] = TemplateText("gitattributes")
    /\ files[".coderabbit.yaml"] = TemplateText("coderabbit.yaml")
    /\ files["README.md"] = <<"#", " ">> \o ProjectPathName
    /\ cmds = <<Ran(WhichCoderabbit, 0), Ran(WhichCoderabbit, 0)>>

\* ---------------------------------- the two publishers on the same inputs
\* What a call of setup_remote_and_push shows: the prompts, the git commands, the
\* sleeps, and how the call ended.
Shown(p, c, s, outcome) == [prompts |-> p, cmds |-> c, sleeps |-> s, outcome |-> outcome]

NoResult == Shown(<<>>, <<>>, <<>>, "none")

\* The inputs of a call: whether origin exists, the answer to the yes/no prompt,
\* the URL typed, and the return codes of git remote add and of each git push.
PublisherInputs ==
    [origin : BOOLEAN, answer : Answers, url : Urls, rcAdd : ReturnCodes,
     pushes : [1..max_retries -> ReturnCodes]]

\* The retry loop of ProjectInitializer.setup_remote_and_push from iteration
\* attempt on: the pushes run and the sleeps taken.
RECURSIVE full_push_loop(_, _)
full_push_loop(pushes, n) ==
    IF n >= max_retries THEN [cmds |-> <<>>, sleeps |-> <<>>]
    ELSE LET rc == pushes[n + 1]
             pushed == <<Ran(GitPush, rc)>>
         IN  IF run_command(rc, TRUE) = "returned"
             THEN [cmds |-> pushed, sleeps |-> <<>>]
             ELSE IF n < max_retries - 1
             THEN LET rest == full_push_loop(pushes, n + 1)
                  IN  [cmds |-> pushed \o rest.cmds,
                       sleeps |-> <<retry_delays[n + 1]>> \o rest.sleeps]
             ELSE [cmds |-> pushed, sleeps |-> <<>>]

\* ProjectInitializer.setup_remote_and_push as a function of its inputs.
full_setup_remote_and_push(in) ==
    LET rc == IF in.origin THEN 0 ELSE 1
        queried == <<Ran(GitRemoteGetUrl, rc)>>
        push_to_existing == Asked("Push to this remote? (y/n)", in.answer)
        add_remote == Asked("Add a remote repository? (y/n)", in.answer)
        enter_url == Asked("Enter remote repository URL", in.url)
        pushed == full_push_loop(in.pushes, 0)
    IN  IF run_command(rc, FALSE) = "CalledProcessError"
        THEN Shown(<<>>, queried, <<>>, "raised")
        ELSE IF rc = 0
        THEN IF Lower(in.answer) # <<"y">>
             THEN Shown(<<push_to_existing>>, queried, <<>>, "returned")
             ELSE Shown(<<push_to_existing>>, queried \o pushed.cmds, pushed.sleeps,
                        "returned")
        ELSE IF Lower(in.answer) # <<"y">>
        THEN Shown(<<add_remote>>, queried, <<>>, "returned")
        ELSE IF Strip(in.url) = <<>>
        THEN Shown(<<add_remote, enter_url>>, queried, <<>>, "returned")
        ELSE IF run_command(in.rcAdd, TRUE) = "CalledProcessError"
        THEN Shown(<<add_remote, enter_url>>,
                   queried \o <<Ran(GitRemoteAdd, in.rcAdd)>>, <<>>, "returned")
        ELSE Shown(<<add_remote, enter_url>>,
                   queried \o <<Ran(GitRemoteAdd, in.rcAdd)>> \o pushed.cmds,
                   pushed.sleeps, "returned")

\* The retry loop of quick_init_project.setup_remote_and_push.
RECURSIVE quick_push_loop(_, _)
quick_push_loop(pushes, n) ==
    IF n >= quick_max_retries THEN [cmds |-> <<>>, sleeps |-> <<>>]
    ELSE LET rc == pushes[n + 1]
             pushed == <<Ran(GitPush, rc)>>
         IN  IF rc = 0
             THEN [cmds |-> pushed, sleeps |-> <<>>]
             ELSE IF n < quick_max_retries - 1
             THEN LET rest == quick_push_loop(pushes, n + 1)
                  IN  [cmds |-> pushed \o rest.cmds,
                       sleeps |-> <<quick_retry_delays[n + 1]>> \o rest.sleeps]
             ELSE [cmds |-> pushed, sleeps |-> <<>>]

\* quick_init_project.setup_remote_and_push as a function of its inputs.
quick_setup_remote_and_push(in) ==
    LET rc == IF in.origin THEN 0 ELSE 1
        queried == <<Ran(GitRemoteGetUrl, rc)>>
        push_to_existing == Asked("Push to this remote? (y/n)", in.answer)
        add_remote == Asked("Add a remote repository? (y/n)", in.answer)
        enter_url == Asked("Enter remote repository URL", in.url)
        pushed == quick_push_loop(in.pushes, 0)
    IN  IF run(rc, FALSE) = "exit1"
        THEN Shown(<<>>, queried, <<>>, "exit1")
        ELSE IF rc = 0
        THEN IF Lower(in.answer) # <<"y">>
             THEN Shown(<<push_to_existing>>, queried, <<>>, "returned")
             ELSE Shown(<<push_to_existing>>, queried \o pushed.cmds, pushed.sleeps,
                        "returned")
        ELSE IF Lower(in.answer) # <<"y">>
        THEN Shown(<<add_remote>>, queried, <<>>, "returned")
        ELSE IF Strip(in.url) = <<>>
        THEN Shown(<<add_remote, enter_url>>, queried, <<>>, "returned")
        ELSE IF run(in.rcAdd, FALSE) = "exit1"
        THEN Shown(<<add_remote, enter_url>>,
                   queried \o <<Ran(GitRemoteAdd, in.rcAdd)>>, <<>>, "exit1")
        ELSE IF in.rcAdd # 0
        THEN Shown(<<add_remote, enter_url>>,
                   queried \o <<Ran(GitRemoteAdd, in.rcAdd)>>, <<>>, "returned")
        ELSE Shown(<<add_remote, enter_url>>,
                   queried \o <<Ran(GitRemoteAdd, in.rcAdd)>> \o pushed.cmds,
                   pushed.sleeps, "returned")

\* Both publishers about to be called on the same inputs.
InitPair ==
    /\ pair \in [input : PublisherInputs, full : {NoResult}, quick : {NoResult}]
    /\ variant = "full"
    /\ entry = "setup_remote_and_push"
    /\ pc = "pair"
    /\ status = "running"
    /\ nonEmpty = TRUE
    /\ gitDir = TRUE
    /\ listing = Listing(gitDir, nonEmpty)
    /\ gitInitialized = FALSE
    /\ language = "python"
    /\ origin = IF pair.input.origin THEN <<"u">> ELSE Absent
    /\ templates = [n \in TemplateNames |-> TemplateText(n)]
    /\ files = NoFiles
    /\ hookExec = FALSE
    /\ cmds = <<>> /\ prompts = <<>> /\ sleeps = <<>> /\ msgs = <<>>
    /\ attempt = 0
    /\ call = NoCall
    /\ ops = <<>>
    /\ hookRan = FALSE
    /\ NoConstruction /\ NoTui

\* ProjectInitializer.setup_remote_and_push called on the inputs.
Pair_full ==
    /\ pc = "pair" /\ pair.full = NoResult
    /\ pair' = [pair EXCEPT !.full = full_setup_remote_and_push(pair.input)]
    /\ UNCHANGED <<listing, disk, templates_dir, options, checks, hookRan, ops, variant,
                   entry, pc, status, nonEmpty, gitDir, gitInitialized, language, origin,
                   templates, files, hookExec, cmds, prompts, sleeps, attempt, msgs, call>>

\* quick_init_project.setup_remote_and_push called on the inputs.
Pair_quick ==
    /\ pc = "pair" /\ pair.quick = NoResult
    /\ pair' = [pair EXCEPT !.quick = quick_setup_remote_and_push(pair.input)]
    /\ UNCHANGED <<listing, disk, templates_dir, options, checks, hookRan, ops, variant,
                   entry, pc, status, nonEmpty, gitDir, gitInitialized, language, origin,
                   templates, files, hookExec, cmds, prompts, sleeps, attempt, msgs, call>>

NextPair == Pair_full \/ Pair_quick

SpecPair == InitPair /\ [][NextPair]_vars

BothCalled == pc = "pair" /\ pair.full # NoResult /\ pair.quick # NoResult

\* C26: called on the same origin flag, answer, URL, remote-add return code and
\* push return codes, the two setup_remote_and_push implementations ask the same
\* prompts, run the same git commands, sleep the same durations, and both return
\* normally.
C26_PublishersEquivalent ==
    BothCalled
    => /\ pair.full.prompts = pair.quick.prompts
       /\ pair.full.cmds = pair.quick.cmds
       /\ pair.full.sleeps = pair.quick.sleeps
       /\ pair.full.outcome = "returned"
       /\ pair.quick.outcome = "returned"

\* Both called with no origin, a confirmation, a URL, and three failing pushes
\* before one that succeeds.
C26_Witness ==
    /\ BothCalled
    /\ ~pair.input.origin
    /\ pair.full.sleeps = <<2, 4, 8>>
    /\ Len(pair.quick.cmds) = 6
    /\ pair.quick.cmds[6] = Ran(GitPush, 0)

UrlPrompt == "Enter remote repository URL"

\* The entries a step appends to a log.
Added(before, after) == { after[i] : i \in (DOMAIN after) \ (DOMAIN before) }

\* setup_remote_and_push found origin configured.
OriginFound == Positions(GitRemoteGetUrl, 0) # {}

\* C27: when setup_remote_and_push finds an origin remote, git remote add is
\* never invoked and the operator is never asked for a URL, whatever the answer
\* and the push outcomes are; and no step taken while origin is configured
\* changes it, adds a remote or asks for a URL.
C27_ExistingOriginKept ==
    /\ [](OriginFound
          => /\ Invoked(GitRemoteAdd) = <<>>
             /\ \A i \in DOMAIN prompts : prompts[i].prompt # UrlPrompt
             /\ origin = <<"u">>)
    /\ [][origin # Absent
          => /\ origin' = origin
             /\ \A c \in Added(cmds, cmds') : c.cmd # GitRemoteAdd
             /\ \A q \in Added(prompts, prompts') : q.prompt # UrlPrompt]_vars

\* A call that found origin, was confirmed, and pushed four times in vain.
C27_Witness ==
    /\ OriginFound /\ origin = <<"u">>
    /\ pc = Returned
    /\ Len(Pushes) = 4
    /\ Len(prompts) >= 1 /\ Confirmed(prompts[Len(prompts)].answer)

PushPrompt == "Push to this remote? (y/n)"

AddRemotePrompt == "Add a remote repository? (y/n)"

\* C28: each yes/no prompt of the full and quick scripts takes the answers 'y'
\* and 'Y' as a confirmation and every other answer (the empty one, 'yes', an
\* answer with a leading or trailing space, 'n', 'N') as a decline: a declined
\* folder prompt ends the run with nothing initialized, a declined push or
\* add-remote prompt leaves git push and git remote add uninvoked and the URL
\* unasked; a confirmed folder prompt does not end the run, a confirmed push
\* prompt leads to a push, and a confirmed add-remote prompt to the URL prompt.
C28_OnlyYConfirms ==
    \A i \in DOMAIN prompts :
       LET q == prompts[i]
       IN  /\ q.prompt = FolderPrompt
              => IF q.answer \in Agrees
                 THEN status # "exit0"
                 ELSE status = "exit0" /\ pc = "exited" /\ NothingDone
           /\ q.prompt = PushPrompt
              => IF q.answer \in Agrees
                 THEN (pc = "push" /\ attempt = 0) \/ Pushes # <<>>
                 ELSE Pushes = <<>> /\ sleeps = <<>> /\ ReturnedNormally
           /\ q.prompt = AddRemotePrompt
              => IF q.answer \in Agrees
                 THEN Len(AnswersTo(UrlPrompt)) = 1
                 ELSE /\ Pushes = <<>> /\ Invoked(GitRemoteAdd) = <<>>
                      /\ AnswersTo(UrlPrompt) = <<>> /\ origin = Absent
                      /\ ReturnedNormally

\* Runs in which 'yes' was not taken as a confirmation, and 'Y' was.
C28_Witness ==
    /\ entry = "run" /\ status = "done"
    /\ Len(prompts) = 2
    /\ prompts[1] = Asked(FolderPrompt, <<"Y">>)
    /\ prompts[2] = Asked(AddRemotePrompt, <<"y", "e", "s">>)

C28_WitnessSpace ==
    /\ entry = "run" /\ status = "exit0"
    /\ prompts = <<Asked(FolderPrompt, <<"y", " ">>)>>

TuiRun == variant = "tui" /\ entry = "run"

\* The operator rejected the summary.
SummaryRejected == TuiRun /\ Said("Setup cancelled.")

\* What the TUI run does with git and the hook, and under which conditions.
TuiConditions ==
    /\ (gitInitialized \/ Invoked(GitInit) # <<>>)
       => /\ options["setup_precommit"] \/ options["create_initial_commit"]
          /\ DotGit \notin listing
    /\ (HookCalls # <<>> \/ files[HookPath] # Absent \/ hookExec)
       => options["setup_precommit"] /\ gitInitialized
    /\ (Invoked(GitAdd) # <<>> \/ CommitInvoked)
       => /\ options["create_initial_commit"] /\ gitInitialized
          /\ checks["git_configured"]
    /\ (status = "done" /\ ~SummaryRejected)
       => /\ gitInitialized
             <=> /\ options["setup_precommit"] \/ options["create_initial_commit"]
                 /\ DotGit \notin listing
          /\ HookCalls # <<>> <=> options["setup_precommit"] /\ gitInitialized
          /\ CommitInvoked
             <=> /\ options["create_initial_commit"] /\ gitInitialized
                 /\ checks["git_configured"]

\* C29, as claimed: in the TUI run git is initialized only when the hook option
\* or the initial-commit option is enabled and .git does not exist, the hook is
\* installed only when its option is enabled and this run initialized git, the
\* initial commit is created only when its option is enabled, this run
\* initialized git and user.name was found configured; and when the operator
\* rejects the summary no git command was invoked and no file was written.
C29_TuiRun_Claimed ==
    TuiRun
    => /\ TuiConditions
       /\ SummaryRejected => cmds = <<>> /\ ops = <<>> /\ files = NoFiles

\* C29, amended: the same conditions; when the operator rejects the summary the
\* only git command invoked is the `git config user.name` query that
\* check_prerequisites makes before the summary is shown, and no file was
\* written.
C29_TuiRun ==
    TuiRun
    => /\ TuiConditions
       /\ SummaryRejected
          => /\ Len(cmds) = 1 /\ cmds[1].cmd = GitConfigName
             /\ ops = <<>> /\ files = NoFiles /\ ~hookExec /\ ~gitInitialized
             /\ status = "done"

\* A run that initialized git, installed the hook and committed, and the state
\* of a rejected run.
C29_Witness ==
    /\ TuiRun /\ status = "done" /\ ~SummaryRejected
    /\ gitInitialized /\ HookCalls # <<>> /\ CommitInvoked
    /\ ~options["create_readme"]

C29_WitnessRejected ==
    /\ SummaryRejected
    /\ options["setup_precommit"] /\ options["create_initial_commit"]
    /\ checks["git_configured"]
    /\ cmds = <<Ran(GitConfigName, 0)>>

\* A run of main of one of the quick scripts.
QuickRun == variant \in {"quick", "v2"} /\ entry = "run"

\* The outputs of the quick scripts and the template each is loaded from.
QuickOutputs ==
    { <<".gitignore", "gitignore.python">>, <<".gitattributes", "gitattributes">>,
      <<".coderabbit.yaml", "coderabbit.yaml">>, <<HookPath, "pre-commit">> }

\* The built-in text main writes to destination.
Fallback(destination) ==
    CASE destination = ".gitignore" -> MinimalGitignore
      [] destination = ".gitattributes" -> MinimalGitattributes
      [] destination = ".coderabbit.yaml" -> MinimalCoderabbit
      [] destination = HookPath -> IF variant = "v2" THEN V2MinimalHook ELSE MinimalHook

Writes(destination) == Count(ops, Op("write_text", destination))

\* The hook step, the last of the four, has completed.
OutputsWritten == \E i \in DOMAIN ops : ops[i] = Chmod(HookPath, 493)

\* C30: in main of the quick scripts no output is written twice; an output that
\* was written holds the template's text when the template exists and is not
\* empty, and the built-in fallback when the template is missing or empty, so it
\* is never the empty file; and once the hook step has completed each of
\* .gitignore, .gitattributes, .coderabbit.yaml and the hook was written once.
C30_QuickOutputs ==
    QuickRun
    => \A o \in QuickOutputs :
          /\ Writes(o[1]) <= 1
          /\ Writes(o[1]) = 0 <=> files[o[1]] = Absent
          /\ Writes(o[1]) = 1
             => /\ files[o[1]] # <<>>
                /\ files[o[1]] =
                      IF templates[o[2]] # Absent /\ templates[o[2]] # <<>>
                      THEN templates[o[2]]
                      ELSE Fallback(o[1])
          /\ OutputsWritten => Writes(o[1]) = 1

\* A completed run whose gitattributes template is empty: the fallback was
\* written, and the others come from their templates.
C30_Witness ==
    /\ QuickRun /\ variant = "v2" /\ status = "done"
    /\ OutputsWritten
    /\ templates["gitattributes"] = <<>>
    /\ files[".gitattributes"] = MinimalGitattributes
    /\ files[".gitignore"] = TemplateText("gitignore.python")

C30_WitnessMissing ==
    /\ QuickRun /\ variant = "quick" /\ status = "done"
    /\ templates["pre-commit"] = Absent
    /\ files[HookPath] = MinimalHook

====
